---- MODULE Spec2Model ----
(***************************************************************************)
(* Model of the eulumies library: the IESNA LM-63 codec (ies.go), the      *)
(* EULUMDAT codec (eulumdat.go), the line reader (filereader.go) and the   *)
(* converter (conversion.go).                                              *)
(*                                                                         *)
(* Text is modelled character by character: a string is a sequence of      *)
(* one-character strings, a document is a sequence of lines without their  *)
(* terminators (bufio.ScanLines strips "\r\n").  A float64 is modelled as   *)
(* a whole number of hundredths (150 is 1.5); the printing and parsing     *)
(* operators work on the digits.                                           *)
(***************************************************************************)
EXTENDS Integers, Sequences, FiniteSets, TLC

VARIABLES
    doc,      \* the lines of the input file / of the file written by Export
    strict,   \* the strict flag handed to NewIES / NewEulumdat
    pos,      \* the scanner: number of lines scanned, doc[pos] is scanner.Text()
    pc,       \* position of the running operation
    err,      \* error returned by the running operation ("" is nil)
    ies,      \* the IES value under construction / returned
    orig,     \* the IES model handed to Export
    eul,      \* the Eulumdat value returned by NewEulumdat
    eorig,    \* the Eulumdat model handed to Export
    conv      \* outcome of the converter call

vars == <<doc, strict, pos, pc, err, ies, orig, eul, eorig, conv>>

----------------------------------------------------------------------------
(* Characters and strings *)

\* a local variable: F applied to the value that v has when it is assigned
With(v, F(_)) == CHOOSE r \in {F(x) : x \in {v}} : TRUE

Digits == <<"0","1","2","3","4","5","6","7","8","9">>
DigitSet == {Digits[i] : i \in 1..10}
Upper == {"A","B","C","D","E","F","G","H","I","J","K","L","M",
          "N","O","P","Q","R","S","T","U","V","W","X","Y","Z"}
Lower == {"a","b","c","d","e","f","g","h","i","j","k","l","m",
          "n","o","p","q","r","s","t","u","v","w","x","y","z"}
\* regexp class \w
IsWordChar(c) == c \in Upper \cup Lower \cup DigitSet \cup {"_"}
\* regexp class \s, unicode.IsSpace
IsSpace(c) == c \in {" ", "\t"}
NL == "\n"

\* index of the first character at or after i that is not a space (Len+1 if none)
RECURSIVE SkipSpace(_,_)
SkipSpace(s, i) ==
    IF i > Len(s) THEN i
    ELSE IF IsSpace(s[i]) THEN SkipSpace(s, i + 1) ELSE i

\* index of the first character at or after i that is not a word character
RECURSIVE SkipWord(_,_)
SkipWord(s, i) ==
    IF i > Len(s) THEN i
    ELSE IF IsWordChar(s[i]) THEN SkipWord(s, i + 1) ELSE i

\* index of the first space at or after i (Len+1 if none)
RECURSIVE SkipNonSpace(_,_)
SkipNonSpace(s, i) ==
    IF i > Len(s) THEN i
    ELSE IF IsSpace(s[i]) THEN i ELSE SkipNonSpace(s, i + 1)

\* index of the last character at or before i that is not a space (0 if none)
RECURSIVE SkipSpaceBack(_,_)
SkipSpaceBack(s, i) ==
    IF i < 1 THEN 0
    ELSE IF IsSpace(s[i]) THEN SkipSpaceBack(s, i - 1) ELSE i

\* strings.TrimSpace
TrimSpace(s) == SubSeq(s, SkipSpace(s, 1), SkipSpaceBack(s, Len(s)))

\* bufio.ScanWords over a line: the whitespace-delimited tokens in order
RECURSIVE WordsFrom(_,_)
WordsFrom(s, i) ==
    LET b == SkipSpace(s, i)
        e == SkipNonSpace(s, b)
    IN IF b > Len(s) THEN <<>>
       ELSE <<SubSeq(s, b, e - 1)>> \o WordsFrom(s, e)
Words(s) == WordsFrom(s, 1)

\* strings.ReplaceAll(s, c, "")
RemoveAll(s, cs) == SelectSeq(s, LAMBDA c : c \notin cs)

\* strings.ReplaceAll(s, ",", ".")
CommaToDot(s) == [i \in 1..Len(s) |-> IF s[i] = "," THEN "." ELSE s[i]]

\* strings.Split(s, "\n")
RECURSIVE SplitLinesFrom(_,_)
SplitLinesFrom(s, i) ==
    LET nls == {j \in i..Len(s) : s[j] = NL}
    IN IF nls = {} THEN <<SubSeq(s, i, Len(s))>>
       ELSE With(CHOOSE j \in nls : \A j2 \in nls : j <= j2, LAMBDA j :
                <<SubSeq(s, i, j - 1)>> \o SplitLinesFrom(s, j + 1))
SplitLines(s) == With(s, LAMBDA t : SplitLinesFrom(t, 1))

\* n copies of the character c
Rep(c, n) == [i \in 1..n |-> c]

----------------------------------------------------------------------------
(* Numbers: strconv.Itoa / Atoi / ParseFloat / FormatFloat, fmt.Sprint *)

DigitVal(c) == (CHOOSE i \in 1..10 : Digits[i] = c) - 1
AllDigits(s) == \A i \in 1..Len(s) : s[i] \in DigitSet

RECURSIVE NatStr(_)
NatStr(n) == IF n < 10 THEN <<Digits[n + 1]>>
             ELSE NatStr(n \div 10) \o <<Digits[(n % 10) + 1]>>

RECURSIVE StrNat(_)
StrNat(s) == IF s = <<>> THEN 0
             ELSE StrNat(SubSeq(s, 1, Len(s) - 1)) * 10 + DigitVal(s[Len(s)])

\* strconv.Itoa
Itoa(n) == IF n < 0 THEN <<"-">> \o NatStr(-n) ELSE NatStr(n)

\* sign and magnitude of a numeric token
Unsigned(s) == IF s # <<>> /\ s[1] \in {"-", "+"} THEN Tail(s) ELSE s
Sign(s) == IF s # <<>> /\ s[1] = "-" THEN -1 ELSE 1

\* strconv.Atoi: [ok, v]
Atoi(s) ==
    LET u == Unsigned(s)
    IN IF u # <<>> /\ AllDigits(u)
       THEN [ok |-> TRUE, v |-> Sign(s) * StrNat(u)]
       ELSE [ok |-> FALSE, v |-> 0]

\* position of the decimal point in u (Len+1 if none)
RECURSIVE DotAt(_,_)
DotAt(u, i) == IF i > Len(u) THEN i
               ELSE IF u[i] = "." THEN i ELSE DotAt(u, i + 1)

\* strconv.ParseFloat for decimal literals: [ok, v] with v in hundredths.
\* Digits after the second decimal place must be zero to be a value of the model.
ParseFloat(s) ==
    With(Unsigned(s), LAMBDA u :
    With(DotAt(u, 1), LAMBDA d :
    With(SubSeq(u, 1, d - 1), LAMBDA ip :
    With(SubSeq(u, d + 1, Len(u)), LAMBDA fp :
        LET f2 == SubSeq(fp \o <<"0", "0">>, 1, 2)
            rest == SubSeq(fp, 3, Len(fp))
        IN IF /\ (ip # <<>> \/ fp # <<>>)
              /\ AllDigits(ip) /\ AllDigits(fp)
              /\ \A i \in 1..Len(rest) : rest[i] = "0"
           THEN [ok |-> TRUE, v |-> Sign(s) * (StrNat(ip) * 100 + StrNat(f2))]
           ELSE [ok |-> FALSE, v |-> 0]))))

Abs(n) == IF n < 0 THEN -n ELSE n
SignStr(h) == IF h < 0 THEN <<"-">> ELSE <<>>
TwoDigits(n) == <<Digits[(n \div 10) + 1], Digits[(n % 10) + 1]>>

\* strconv.FormatFloat(flt, 'f', 2, 64)
FormatFloat2(h) ==
    SignStr(h) \o NatStr(Abs(h) \div 100) \o <<".">> \o TwoDigits(Abs(h) % 100)

\* fmt.Sprintf("%f", flt): six decimals
FormatFloat6(h) == FormatFloat2(h) \o <<"0", "0", "0", "0">>

\* fmt.Sprint(flt): shortest decimal that parses back
SprintFloat(h) ==
    LET a == Abs(h)
        f == a % 100
    IN SignStr(h) \o NatStr(a \div 100) \o
       (IF f = 0 THEN <<>>
        ELSE IF f % 10 = 0 THEN <<".", Digits[(f \div 10) + 1]>>
        ELSE <<".">> \o TwoDigits(f))

----------------------------------------------------------------------------
(* ies.go: constants *)

IESFormatUnknown == "UNKNOWN"
IESFormatLM_63_1986 == "LM-63-1986"
IESFormatLM_63_1991 == "LM-63-1991"
IESFormatLM_63_1995 == "LM-63-1995"
IESFormatLM_63_2002 == "LM-63-2002"

IESTiltInclude == "INCLUDE"
IESTiltFile == "FILE"
IESTiltNone == "NONE"

kwTEST == <<"T","E","S","T">>
kwTESTLAB == <<"T","E","S","T","L","A","B">>
kwTESTDATE == <<"T","E","S","T","D","A","T","E">>
kwNEARFIELD == <<"N","E","A","R","F","I","E","L","D">>
kwMANUFAC == <<"M","A","N","U","F","A","C">>
kwLUMCAT == <<"L","U","M","C","A","T">>
kwLUMINAIRE == <<"L","U","M","I","N","A","I","R","E">>
kwLAMPCAT == <<"L","A","M","P","C","A","T">>
kwLAMP == <<"L","A","M","P">>
kwBALLAST == <<"B","A","L","L","A","S","T">>
kwBALLASTCAT == <<"B","A","L","L","A","S","T","C","A","T">>
kwMAINTCAT == <<"M","A","I","N","T","C","A","T">>
kwDISTRIBUTION == <<"D","I","S","T","R","I","B","U","T","I","O","N">>
kwFLASHAREA == <<"F","L","A","S","H","A","R","E","A">>
kwCOLORCONSTANT == <<"C","O","L","O","R","C","O","N","S","T","A","N","T">>
kwLAMPPOSITION == <<"L","A","M","P","P","O","S","I","T","I","O","N">>
kwISSUEDATE == <<"I","S","S","U","E","D","A","T","E">>
kwOTHER == <<"O","T","H","E","R">>
kwSEARCH == <<"S","E","A","R","C","H">>
kwMORE == <<"M","O","R","E">>
kwDATE == <<"D","A","T","E">>
kwBLOCK == <<"B","L","O","C","K">>
kwENDBLOCK == <<"E","N","D","B","L","O","C","K">>

idIESNA91 == <<"I","E","S","N","A","9","1">>
idLM63_1995 == <<"I","E","S","N","A",":","L","M","-","6","3","-","1","9","9","5">>
idLM63_2002 == <<"I","E","S","N","A",":","L","M","-","6","3","-","2","0","0","2">>
txtTILT == <<"T","I","L","T">>
txtINCLUDE == <<"I","N","C","L","U","D","E">>
txtNONE == <<"N","O","N","E">>
txtFILE == <<"F","I","L","E">>
txtUnknown == <<"u","n","k","n","o","w","n">>

\* the zero value of the IES struct (var ies IES)
ZeroIES ==
    [Format |-> "", Keywords |-> <<>>, Tilt |-> "",
     TiltLampToLuminaireGeometry |-> 0, TiltAnglesAndFactors |-> 0,
     TiltAngles |-> <<>>, TiltMultiplierFactors |-> <<>>,
     NumberLamps |-> 0, LumensPerLamp |-> 0, CandelaMultiplier |-> 0,
     NumberVerticalAngles |-> 0, NumberHorizontalAngles |-> 0,
     PhotometricType |-> 0, UnitsType |-> 0,
     LuminaireWidth |-> 0, LuminaireLength |-> 0, LuminaireHeight |-> 0,
     BallastFactor |-> 0, FutureUse |-> 0, InputWatts |-> 0,
     VerticalAngles |-> <<>>, HorizontalAngles |-> <<>>, CandelaValues |-> <<>>,
     insideBlock |-> FALSE, lastKeyword |-> <<>>, strictParsing |-> FALSE]

\* m[k] = v on a Go map
MapPut(m, k, v) == [x \in (DOMAIN m) \cup {k} |-> IF x = k THEN v ELSE m[x]]
\* m[k] read on a Go map: the zero value when the key is absent
MapGet(m, k) == IF k \in DOMAIN m THEN m[k] ELSE <<>>
\* delete(m, k)
MapDelete(m, k) == [x \in (DOMAIN m) \ {k} |-> m[x]]

----------------------------------------------------------------------------
(* ies.go: per-revision tables *)

parseFormatVersion(line) ==
    IF line = idIESNA91 THEN [ok |-> TRUE, Format |-> IESFormatLM_63_1991]
    ELSE IF line = idLM63_1995 THEN [ok |-> TRUE, Format |-> IESFormatLM_63_1995]
    ELSE IF line = idLM63_2002 THEN [ok |-> TRUE, Format |-> IESFormatLM_63_2002]
    ELSE [ok |-> FALSE, Format |-> IESFormatUnknown]

convertFormatToString(i) ==
    IF i.Format = IESFormatLM_63_1991 THEN idIESNA91
    ELSE IF i.Format = IESFormatLM_63_1995 THEN idLM63_1995
    ELSE IF i.Format = IESFormatLM_63_2002 THEN idLM63_2002
    ELSE <<>>

maxKeywordLineLength(i) ==
    IF i.Format \in {IESFormatLM_63_1986, IESFormatLM_63_1991, IESFormatLM_63_1995}
    THEN 82 - 2
    ELSE IF i.Format = IESFormatLM_63_2002 THEN 256 - 2
    ELSE 0

maxDataLineLength(i) ==
    IF i.Format \in {IESFormatLM_63_1986, IESFormatLM_63_1991, IESFormatLM_63_1995}
    THEN 132 - 2
    ELSE IF i.Format = IESFormatLM_63_2002 THEN 256 - 2
    ELSE 0

keywordAllowedByIesna02(keyword) ==
    keyword \in {kwTEST, kwTESTLAB, kwTESTDATE, kwNEARFIELD, kwMANUFAC, kwLUMCAT,
                 kwLUMINAIRE, kwLAMPCAT, kwLAMP, kwBALLAST, kwBALLASTCAT, kwMAINTCAT,
                 kwDISTRIBUTION, kwFLASHAREA, kwCOLORCONSTANT, kwLAMPPOSITION,
                 kwISSUEDATE, kwOTHER, kwSEARCH, kwMORE}

keywordAllowedByIesna95(keyword) ==
    keyword \in {kwTEST, kwDATE, kwNEARFIELD, kwMANUFAC, kwLUMCAT, kwLUMINAIRE,
                 kwLAMPCAT, kwLAMP, kwBALLAST, kwBALLASTCAT, kwMAINTCAT,
                 kwDISTRIBUTION, kwFLASHAREA, kwCOLORCONSTANT, kwOTHER, kwSEARCH,
                 kwMORE, kwBLOCK, kwENDBLOCK}

keywordAllowedByIesna91(keyword) ==
    keyword \in {kwTEST, kwDATE, kwMANUFAC, kwLUMCAT, kwLUMINAIRE, kwLAMPCAT,
                 kwLAMP, kwBALLAST, kwBALLASTCAT, kwMAINTCAT, kwDISTRIBUTION,
                 kwFLASHAREA, kwCOLORCONSTANT, kwMORE}

\* the check without the exemption of keywords that begin with an underscore
isKeywordAllowedNoCustom(i, keyword) ==
    IF keyword = <<>> THEN FALSE
    ELSE IF Len(keyword) > 18 THEN FALSE
    ELSE IF i.Format = IESFormatUnknown \/ i.Format = "" THEN TRUE
    ELSE IF i.Format = IESFormatLM_63_1986 THEN TRUE
    ELSE IF i.Format = IESFormatLM_63_1991 THEN keywordAllowedByIesna91(keyword)
    ELSE IF i.Format = IESFormatLM_63_1995 THEN keywordAllowedByIesna95(keyword)
    ELSE IF i.Format = IESFormatLM_63_2002 THEN keywordAllowedByIesna02(keyword)
    ELSE TRUE

isKeywordAllowed(i, keyword) ==
    IF keyword = <<>> THEN FALSE
    ELSE IF Len(keyword) > 18 THEN FALSE
    ELSE IF i.Format = IESFormatUnknown \/ i.Format = "" THEN TRUE
    ELSE IF keyword[1] = "_" THEN TRUE
    ELSE IF i.Format = IESFormatLM_63_1986 THEN TRUE
    ELSE IF i.Format = IESFormatLM_63_1991 THEN keywordAllowedByIesna91(keyword)
    ELSE IF i.Format = IESFormatLM_63_1995 THEN keywordAllowedByIesna95(keyword)
    ELSE IF i.Format = IESFormatLM_63_2002 THEN keywordAllowedByIesna02(keyword)
    ELSE TRUE

\* the 2002 check with TESTLAB left out of the required set
checkIesna02RequiredKeywordsNoTestlab(keywords) ==
    \A k \in {kwTEST, kwISSUEDATE, kwMANUFAC} : k \in DOMAIN keywords

checkIesna02RequiredKeywords(keywords) ==
    \A k \in {kwTEST, kwTESTLAB, kwISSUEDATE, kwMANUFAC} : k \in DOMAIN keywords

checkIesna91RequiredKeywords(keywords) ==
    \A k \in {kwTEST, kwMANUFAC} : k \in DOMAIN keywords

ContainsRequiredKeywords(i) ==
    IF i.Format = IESFormatUnknown \/ i.Format = "" THEN TRUE
    ELSE IF i.Format = IESFormatLM_63_1991 THEN checkIesna91RequiredKeywords(i.Keywords)
    ELSE IF i.Format = IESFormatLM_63_2002 THEN checkIesna02RequiredKeywords(i.Keywords)
    ELSE TRUE

----------------------------------------------------------------------------
(* ies.go: line classification (the three regular expressions) *)

\* keywordRegex  ^\[(_*\w*)\]\s+(.*)$
isKeywordLine(line) ==
    /\ Len(line) >= 1
    /\ line[1] = "["
    /\ LET k == SkipWord(line, 2)
       IN /\ k + 1 <= Len(line)
          /\ line[k] = "]"
          /\ IsSpace(line[k + 1])
keywordOfLine(line) == SubSeq(line, 2, SkipWord(line, 2) - 1)
valueOfLine(line) == SubSeq(line, SkipSpace(line, SkipWord(line, 2) + 1), Len(line))

\* tiltRegex  ^TILT\s*=\s*(.*)$
isTiltLine(line) ==
    /\ Len(line) >= 5
    /\ SubSeq(line, 1, 4) = txtTILT
    /\ LET e == SkipSpace(line, 5) IN e <= Len(line) /\ line[e] = "="
tiltValueOfLine(line) == SubSeq(line, SkipSpace(line, SkipSpace(line, 5) + 1), Len(line))

\* keywordExtraRegex  ^\s+(.*)$
isKeywordExtraLine(line) == Len(line) >= 1 /\ IsSpace(line[1])
extraValueOfLine(line) == SubSeq(line, SkipSpace(line, 1), Len(line))

----------------------------------------------------------------------------
(* ies.go: the keyword / tilt state machine *)

\* checkKeywordBlock that toggles the flag and never refuses
checkKeywordBlockNoNesting(i, keyword) ==
    IF keyword = kwBLOCK THEN [ok |-> TRUE, ies |-> [i EXCEPT !.insideBlock = TRUE]]
    ELSE IF keyword = kwENDBLOCK THEN [ok |-> TRUE, ies |-> [i EXCEPT !.insideBlock = FALSE]]
    ELSE [ok |-> TRUE, ies |-> i]

\* returns [ok, ies]: the flag update happens on the receiver
checkKeywordBlock(i, keyword) ==
    IF keyword = kwBLOCK
    THEN IF i.insideBlock THEN [ok |-> FALSE, ies |-> i]
         ELSE [ok |-> TRUE, ies |-> [i EXCEPT !.insideBlock = TRUE]]
    ELSE IF keyword = kwENDBLOCK
    THEN IF ~i.insideBlock THEN [ok |-> FALSE, ies |-> i]
         ELSE [ok |-> TRUE, ies |-> [i EXCEPT !.insideBlock = FALSE]]
    ELSE [ok |-> TRUE, ies |-> i]

\* parseKeywordLine without the MORE branch: MORE is stored like any other key
parseKeywordLineMoreAsKey(i, line) ==
    LET keyword == keywordOfLine(line)
        value == valueOfLine(line)
        b == checkKeywordBlock(i, keyword)
        j == b.ies
    IN IF ~isKeywordAllowed(i, keyword) THEN [ies |-> i, err |-> "keyword not allowed"]
       ELSE IF ~b.ok THEN [ies |-> j, err |-> "unexpected block/endblock"]
       ELSE [ies |-> [j EXCEPT !.Keywords = MapPut(@, keyword, value),
                               !.lastKeyword = keyword],
             err |-> ""]

\* returns [ies, err]
parseKeywordLine(i, line) ==
    LET keyword == keywordOfLine(line)
        value == valueOfLine(line)
        b == checkKeywordBlock(i, keyword)
        j == b.ies
    IN IF ~isKeywordAllowed(i, keyword) THEN [ies |-> i, err |-> "keyword not allowed"]
       ELSE IF ~b.ok THEN [ies |-> j, err |-> "unexpected block/endblock"]
       ELSE IF keyword = kwMORE
       THEN IF Cardinality(DOMAIN j.Keywords) = 0 \/ j.lastKeyword = <<>>
            THEN [ies |-> j, err |-> "MORE before any keyword"]
            ELSE [ies |-> [j EXCEPT !.Keywords =
                              MapPut(@, j.lastKeyword,
                                     MapGet(@, j.lastKeyword) \o <<NL>> \o value)],
                  err |-> ""]
       ELSE [ies |-> [j EXCEPT !.Keywords = MapPut(@, keyword, value),
                               !.lastKeyword = keyword],
             err |-> ""]

parseKeywordExtraLine(i, line) ==
    LET value == extraValueOfLine(line)
    IN IF Cardinality(DOMAIN i.Keywords) = 0 \/ i.lastKeyword = <<>>
       THEN [ies |-> i, err |-> "extra line before any keyword"]
       ELSE [ies |-> [i EXCEPT !.Keywords =
                         MapPut(@, i.lastKeyword,
                                MapGet(@, i.lastKeyword) \o <<NL>> \o value)],
             err |-> ""]

\* parseTiltLine that accepts a file name
parseTiltLineAcceptsFile(i, line) ==
    LET value == tiltValueOfLine(line)
    IN IF value = txtINCLUDE THEN [ies |-> [i EXCEPT !.Tilt = IESTiltInclude], err |-> ""]
       ELSE IF value = txtNONE THEN [ies |-> [i EXCEPT !.Tilt = IESTiltNone], err |-> ""]
       ELSE [ies |-> [i EXCEPT !.Tilt = IESTiltFile], err |-> ""]

parseTiltLine(i, line) ==
    LET value == tiltValueOfLine(line)
    IN IF value = txtINCLUDE THEN [ies |-> [i EXCEPT !.Tilt = IESTiltInclude], err |-> ""]
       ELSE IF value = txtNONE THEN [ies |-> [i EXCEPT !.Tilt = IESTiltNone], err |-> ""]
       ELSE [ies |-> [i EXCEPT !.Tilt = IESTiltFile], err |-> "TILT from file not supported"]

----------------------------------------------------------------------------
(* filereader.go and ies.go: reading lines and runs of values *)

\* scanner.Scan() after p lines have been scanned
Scan(d, p) == p < Len(d)

\* [line, pos, err]
validateStringFromLine(d, p, maxLength, str) ==
    IF ~Scan(d, p) THEN [line |-> <<>>, pos |-> p, err |-> "unexpected EOF"]
    ELSE With(TrimSpace(d[p + 1]), LAMBDA cleanLine :
            IF Len(cleanLine) > maxLength /\ str
            THEN [line |-> <<>>, pos |-> p + 1, err |-> "line exceeds maximum allowed length"]
            ELSE [line |-> cleanLine, pos |-> p + 1, err |-> ""])

\* [v, err]
cleanNumberLine(line) == With(TrimSpace(line), LAMBDA t : RemoveAll(t, {" ", "_"}))
getIntFromLine(line) ==
    With(cleanNumberLine(line), LAMBDA cleanLine :
        IF Len(cleanLine) = 0 THEN [v |-> -1, err |-> "line contains no integer"]
        ELSE With(Atoi(cleanLine), LAMBDA a :
            IF a.ok THEN [v |-> a.v, err |-> ""]
            ELSE [v |-> 0, err |-> "strconv.Atoi"]))

\* [v, pos, err]
validateIntFromLine(d, p) ==
    IF ~Scan(d, p) THEN [v |-> -1, pos |-> p, err |-> "unexpected EOF"]
    ELSE With(getIntFromLine(d[p + 1]), LAMBDA r :
            [v |-> r.v, pos |-> p + 1, err |-> r.err])

\* [v, pos, err]
validateFloatFromLine(d, p) ==
    IF ~Scan(d, p) THEN [v |-> -1, pos |-> p, err |-> "unexpected EOF"]
    ELSE With(TrimSpace(d[p + 1]), LAMBDA trimmed :
         With(RemoveAll(CommaToDot(trimmed), {" ", "_"}), LAMBDA cleanLine :
            IF Len(cleanLine) = 0
            THEN [v |-> -1, pos |-> p + 1, err |-> "line contains no float"]
            ELSE With(ParseFloat(cleanLine), LAMBDA f :
                IF f.ok THEN [v |-> f.v, pos |-> p + 1, err |-> ""]
                ELSE [v |-> 0, pos |-> p + 1, err |-> "strconv.ParseFloat"])))

\* [line, pos, err]
\* the fetch that enforces the length limit whatever strictParsing says
fetchValidLineFromFileAlwaysStrict(i, d, p) ==
    LET lineLength == maxDataLineLength(i)
    IN IF ~Scan(d, p) THEN [line |-> <<>>, pos |-> p, err |-> "unexpected EOF"]
       ELSE IF Len(d[p + 1]) > lineLength
       THEN [line |-> <<>>, pos |-> p + 1, err |-> "line exceeds maximum allowed length"]
       ELSE [line |-> d[p + 1], pos |-> p + 1, err |-> ""]

fetchValidLineFromFile(i, d, p) ==
    LET lineLength == maxDataLineLength(i)
    IN IF ~Scan(d, p) THEN [line |-> <<>>, pos |-> p, err |-> "unexpected EOF"]
       ELSE IF Len(d[p + 1]) > lineLength /\ i.strictParsing
       THEN [line |-> <<>>, pos |-> p + 1, err |-> "line exceeds maximum allowed length"]
       ELSE [line |-> d[p + 1], pos |-> p + 1, err |-> ""]

\* [ok, list]
convertStringSliceToFloat(input) ==
    [ok |-> \A k \in 1..Len(input) : ParseFloat(input[k]).ok,
     list |-> [k \in 1..Len(input) |-> ParseFloat(input[k]).v]]

\* The loop of getWordListFromInput with `list` the tokens stored so far; the
\* scanner stands on line p.  Storing past list[size-1] is a run-time panic.
RECURSIVE collectWords(_,_,_,_,_)
collectWords(d, p, size, lastScan, list) ==
    IF ~(Len(list) < size) THEN [list |-> list, pos |-> p, err |-> ""]
    ELSE LET ws == Words(TrimSpace(d[p]))
             processed == Len(list) + Len(ws)
         IN IF processed > size
            THEN [list |-> list, pos |-> p, err |-> "panic: index out of range"]
            ELSE IF processed < size \/ ~lastScan
            THEN IF ~Scan(d, p) THEN [list |-> list \o ws, pos |-> p, err |-> "unexpected EOF"]
                 ELSE collectWords(d, p + 1, size, lastScan, list \o ws)
            ELSE [list |-> list \o ws, pos |-> p, err |-> ""]

\* the collection that never reads a line after the last token
getWordListFromInputLastScan(d, p, size, lastScan) ==
    IF size < 0 THEN [list |-> <<>>, pos |-> p, err |-> "panic: makeslice: len out of range"]
    ELSE collectWords(d, p, size, TRUE, <<>>)

\* [list, pos, err]
getWordListFromInput(d, p, size, lastScan) ==
    IF size < 0 THEN [list |-> <<>>, pos |-> p, err |-> "panic: makeslice: len out of range"]
    ELSE collectWords(d, p, size, lastScan, <<>>)

----------------------------------------------------------------------------
(* ies.go: NewIES, one operator per stage; each returns [ies, pos, err] *)

Ret(i, p, e) == [ies |-> i, pos |-> p, err |-> e]

\* lines 80-98: format identifier and the first keyword line
readFormat(d, str) ==
    LET i0 == [ZeroIES EXCEPT !.strictParsing = str, !.Format = IESFormatUnknown]
        v == validateStringFromLine(d, 0, 16, str)
        f == parseFormatVersion(v.line)
        i1 == [i0 EXCEPT !.Format = f.Format]
        l == fetchValidLineFromFile(i1, d, v.pos)
    IN IF v.err # "" THEN Ret(i0, v.pos, v.err)
       ELSE IF ~f.ok THEN Ret(i0, v.pos, "invalid ies format")
       ELSE Ret(i1, l.pos, l.err)

\* the iteration with the tilt value parsed before the required keywords
\* are looked for
keywordLoopStepTiltFirst(i, d, p) ==
    LET line == d[p]
        t == parseTiltLine(i, line)
        r == IF isKeywordLine(line) THEN parseKeywordLine(i, line)
             ELSE IF isTiltLine(line)
             THEN IF t.err # "" THEN t
                  ELSE IF ~ContainsRequiredKeywords(i)
                  THEN [ies |-> t.ies, err |-> "required keywords are missing"]
                  ELSE t
             ELSE IF isKeywordExtraLine(line) THEN parseKeywordExtraLine(i, line)
             ELSE [ies |-> i, err |-> "expected keyword or tilt line"]
        tilt == ~isKeywordLine(line) /\ isTiltLine(line) /\ ContainsRequiredKeywords(i)
        l == fetchValidLineFromFile(r.ies, d, p)
    IN IF r.err # ""
       THEN [ies |-> r.ies, pos |-> p, err |-> r.err, tiltReached |-> tilt]
       ELSE [ies |-> r.ies, pos |-> l.pos, err |-> l.err, tiltReached |-> tilt]

\* lines 103-129: one iteration of the keyword/tilt loop on line d[p];
\* [ies, pos, err, tiltReached]
keywordLoopStep(i, d, p) ==
    LET line == d[p]
        r == IF isKeywordLine(line) THEN parseKeywordLine(i, line)
             ELSE IF isTiltLine(line)
             THEN IF ~ContainsRequiredKeywords(i)
                  THEN [ies |-> i, err |-> "required keywords are missing"]
                  ELSE parseTiltLine(i, line)
             ELSE IF isKeywordExtraLine(line) THEN parseKeywordExtraLine(i, line)
             ELSE [ies |-> i, err |-> "expected keyword or tilt line"]
        tilt == ~isKeywordLine(line) /\ isTiltLine(line) /\ ContainsRequiredKeywords(i)
        l == fetchValidLineFromFile(r.ies, d, p)
    IN IF r.err # ""
       THEN [ies |-> r.ies, pos |-> p, err |-> r.err, tiltReached |-> tilt]
       ELSE [ies |-> r.ies, pos |-> l.pos, err |-> l.err, tiltReached |-> tilt]

\* lines 131-159
readTiltValues(i, d, p) ==
    IF i.Tilt # IESTiltInclude THEN Ret(i, p, "")
    ELSE LET g == getIntFromLine(d[p])
             i1 == [i EXCEPT !.TiltLampToLuminaireGeometry = g.v]
             l == fetchValidLineFromFile(i1, d, p)
             n == getIntFromLine(l.line)
             i2 == [i1 EXCEPT !.TiltAnglesAndFactors = n.v]
             w1 == getWordListFromInput(d, l.pos, n.v, FALSE)
             a == convertStringSliceToFloat(w1.list)
             i3 == [i2 EXCEPT !.TiltAngles = a.list]
             w2 == getWordListFromInput(d, w1.pos, n.v, FALSE)
             m == convertStringSliceToFloat(w2.list)
             i4 == [i3 EXCEPT !.TiltMultiplierFactors = m.list]
         IN IF g.err # "" THEN Ret(i, p, g.err)
            ELSE IF l.err # "" THEN Ret(i1, l.pos, l.err)
            ELSE IF n.err # "" THEN Ret(i1, l.pos, n.err)
            ELSE IF w1.err # "" THEN Ret(i2, w1.pos, w1.err)
            ELSE IF ~a.ok THEN Ret(i2, w1.pos, "strconv.ParseFloat")
            ELSE IF w2.err # "" THEN Ret(i3, w2.pos, w2.err)
            ELSE IF ~m.ok THEN Ret(i3, w2.pos, "strconv.ParseFloat")
            ELSE Ret(i4, w2.pos, "")

\* lines 161-195: the ten values of line 10; strconv.Atoi for the counts and
\* codes, strconv.ParseFloat for the rest, the first failure is returned
line10IsInt == <<TRUE, FALSE, FALSE, TRUE, TRUE, TRUE, TRUE, FALSE, FALSE, FALSE>>
readLine10(i, d, p) ==
    LET w == getWordListFromInput(d, p, 10, FALSE)
        words == w.list
        ok(k) == IF line10IsInt[k] THEN Atoi(words[k]).ok ELSE ParseFloat(words[k]).ok
        bad == {k \in 1..10 : ~ok(k)}
        first == CHOOSE k \in bad : \A k2 \in bad : k <= k2
    IN IF w.err # "" THEN Ret(i, w.pos, w.err)
       ELSE IF bad # {}
       THEN Ret(i, w.pos, IF line10IsInt[first] THEN "strconv.Atoi" ELSE "strconv.ParseFloat")
       ELSE Ret([i EXCEPT !.NumberLamps = Atoi(words[1]).v,
                          !.LumensPerLamp = ParseFloat(words[2]).v,
                          !.CandelaMultiplier = ParseFloat(words[3]).v,
                          !.NumberVerticalAngles = Atoi(words[4]).v,
                          !.NumberHorizontalAngles = Atoi(words[5]).v,
                          !.PhotometricType = Atoi(words[6]).v,
                          !.UnitsType = Atoi(words[7]).v,
                          !.LuminaireWidth = ParseFloat(words[8]).v,
                          !.LuminaireLength = ParseFloat(words[9]).v,
                          !.LuminaireHeight = ParseFloat(words[10]).v],
                w.pos, "")

\* lines 197-210: words[1], words[1], words[2] of the source are the second,
\* second and third token
readLine11(i, d, p) ==
    LET w == getWordListFromInput(d, p, 3, FALSE)
        words == w.list
    IN IF w.err # "" THEN Ret(i, w.pos, w.err)
       ELSE IF ~ParseFloat(words[2]).ok \/ ~ParseFloat(words[3]).ok
       THEN Ret(i, w.pos, "strconv.ParseFloat")
       ELSE Ret([i EXCEPT !.BallastFactor = ParseFloat(words[2]).v,
                          !.FutureUse = ParseFloat(words[2]).v,
                          !.InputWatts = ParseFloat(words[3]).v],
                w.pos, "")

\* lines 212-219
readVerticalAngles(i, d, p) ==
    LET w == getWordListFromInput(d, p, i.NumberVerticalAngles, FALSE)
        a == convertStringSliceToFloat(w.list)
    IN IF w.err # "" THEN Ret(i, w.pos, w.err)
       ELSE IF ~a.ok THEN Ret(i, w.pos, "strconv.ParseFloat")
       ELSE Ret([i EXCEPT !.VerticalAngles = a.list], w.pos, "")

\* lines 221-228
readHorizontalAngles(i, d, p) ==
    LET w == getWordListFromInput(d, p, i.NumberHorizontalAngles, FALSE)
        a == convertStringSliceToFloat(w.list)
    IN IF w.err # "" THEN Ret(i, w.pos, w.err)
       ELSE IF ~a.ok THEN Ret(i, w.pos, "strconv.ParseFloat")
       ELSE Ret([i EXCEPT !.HorizontalAngles = a.list], w.pos, "")

\* lines 230-247: the candela run, reshaped row-major
readCandelaValues(i, d, p) ==
    LET nv == i.NumberVerticalAngles
        nh == i.NumberHorizontalAngles
        w == getWordListFromInput(d, p, nv * nh, TRUE)
        c == convertStringSliceToFloat(w.list)
    IN IF w.err # "" THEN Ret(i, w.pos, w.err)
       ELSE IF ~c.ok THEN Ret(i, w.pos, "strconv.ParseFloat")
       ELSE Ret([i EXCEPT !.CandelaValues =
                     [r \in 1..nh |-> [k \in 1..nv |-> c.list[(r - 1) * nv + k]]]],
                w.pos, "")

----------------------------------------------------------------------------
(* ies.go: Validate and Export *)

\* [ok, msg]; the strict argument of the source guards an empty block
Validate(i) ==
    IF ~ContainsRequiredKeywords(i)
    THEN [ok |-> FALSE, msg |-> "required keywords not present"]
    ELSE IF i.NumberVerticalAngles # Len(i.VerticalAngles)
    THEN [ok |-> FALSE, msg |-> "VerticalAngles length mismatch"]
    ELSE IF i.NumberHorizontalAngles # Len(i.HorizontalAngles)
    THEN [ok |-> FALSE, msg |-> "HorizontalAngles length mismatch"]
    ELSE IF i.NumberHorizontalAngles # Len(i.CandelaValues)
    THEN [ok |-> FALSE, msg |-> "CandelaValues horizontal length mismatch"]
    ELSE IF \E r \in 1..Len(i.CandelaValues) : i.NumberVerticalAngles # Len(i.CandelaValues[r])
    THEN [ok |-> FALSE, msg |-> "CandelaValues vertical length mismatch"]
    ELSE [ok |-> TRUE, msg |-> ""]

\* the loop with a test that leaves the separator out of the count
RECURSIVE packFromNoSeparator(_,_,_,_,_,_)
packFromNoSeparator(lineLength, strs, k, lines, currentLine, sep) ==
    IF k > Len(strs) THEN Append(lines, currentLine)
    ELSE IF Len(currentLine) + Len(strs[k]) > lineLength
    THEN packFromNoSeparator(lineLength, strs, k + 1, Append(lines, currentLine),
                             sep \o strs[k], <<" ">>)
    ELSE packFromNoSeparator(lineLength, strs, k + 1, lines,
                             currentLine \o sep \o strs[k], <<" ">>)

\* the loop shared by convertFloatSliceToStringSlice and convertValuesToStringSlice
\* from element k on, with the lines finished so far, the current line and sep
RECURSIVE packFrom(_,_,_,_,_,_)
packFrom(lineLength, strs, k, lines, currentLine, sep) ==
    IF k > Len(strs) THEN Append(lines, currentLine)
    ELSE IF Len(currentLine) + Len(strs[k]) + 1 > lineLength
    THEN packFrom(lineLength, strs, k + 1, Append(lines, currentLine), sep \o strs[k], <<" ">>)
    ELSE packFrom(lineLength, strs, k + 1, lines, currentLine \o sep \o strs[k], <<" ">>)

convertFloatSliceToStringSlice(lineLength, input) ==
    packFrom(lineLength, [k \in 1..Len(input) |-> FormatFloat2(input[k])], 1, <<>>, <<>>, <<>>)

\* input: the values already printed by fmt.Sprint
convertValuesToStringSlice(lineLength, input) ==
    packFrom(lineLength, input, 1, <<>>, <<>>, <<>>)

\* lines 285-294: val cut into pieces of chunkSize characters, each trimmed
RECURSIVE chunksFrom(_,_,_)
chunksFrom(val, j, chunkSize) ==
    IF ~(j < Len(val)) THEN <<>>
    ELSE LET end == IF j + chunkSize > Len(val) THEN Len(val) ELSE j + chunkSize
         IN <<TrimSpace(SubSeq(val, j + 1, end))>> \o chunksFrom(val, end, chunkSize)

\* lines 277-306: the text lines of one keyword value; [lines, err]
RECURSIVE cleanLinesFrom(_,_,_,_,_)
cleanLinesFrom(i, splitValue, k, maxLineLength, acc) ==
    IF k > Len(splitValue) THEN [lines |-> acc, err |-> ""]
    ELSE LET val == TrimSpace(splitValue[k])
             next == IF i.Format = IESFormatLM_63_2002
                     THEN maxKeywordLineLength(i) - 7
                     ELSE maxKeywordLineLength(i) - 1
         IN IF Len(val) > maxLineLength
            THEN IF Len(val) = 0
                 THEN cleanLinesFrom(i, splitValue, k + 1, next, acc)
                 ELSE IF maxLineLength < 0
                 THEN [lines |-> acc, err |-> "panic: slice bounds out of range"]
                 ELSE IF maxLineLength = 0
                 THEN [lines |-> acc, err |-> "no termination"]
                 ELSE cleanLinesFrom(i, splitValue, k + 1, next,
                                     acc \o chunksFrom(val, 0, maxLineLength))
            ELSE cleanLinesFrom(i, splitValue, k + 1, next, Append(acc, val))

cleanKeywordLines(i, keyword, value) ==
    cleanLinesFrom(i, SplitLines(value), 1,
                   maxKeywordLineLength(i) - Len(keyword) - 3, <<>>)

\* lines 312-328: the physical lines written for one keyword
keywordFileLines(i, keyword, value) ==
    LET c == cleanKeywordLines(i, keyword, value).lines
    IN [l \in 1..Len(c) |->
           IF l = 1 THEN <<"[">> \o keyword \o <<"]", " ">> \o c[1]
           ELSE IF i.Format = IESFormatLM_63_2002
           THEN <<"[">> \o kwMORE \o <<"]", " ">> \o c[l]
           ELSE <<" ">> \o c[l]]

\* lines 275-329 for the keywords in the order `order` of the map iteration
RECURSIVE keywordSection(_,_,_)
keywordSection(i, order, k) ==
    IF k > Len(order) THEN [lines |-> <<>>, err |-> ""]
    ELSE LET c == cleanKeywordLines(i, order[k], i.Keywords[order[k]])
             rest == keywordSection(i, order, k + 1)
         IN IF c.err # "" THEN [lines |-> <<>>, err |-> c.err]
            ELSE IF Len(c.lines) = 0
            THEN [lines |-> <<>>, err |-> "failed to split keyword into line"]
            ELSE [lines |-> keywordFileLines(i, order[k], i.Keywords[order[k]]) \o rest.lines,
                  err |-> rest.err]

Flatten(ss) ==
    LET RECURSIVE F(_)
        F(k) == IF k = 0 THEN <<>> ELSE F(k - 1) \o ss[k]
    IN F(Len(ss))

\* lines 331-401: the TILT line and everything after it
dataSection(i) ==
    LET lineLength == maxDataLineLength(i)
    IN <<txtTILT \o <<"=">> \o
            (IF i.Tilt = IESTiltInclude THEN txtINCLUDE
             ELSE IF i.Tilt = IESTiltNone THEN txtNONE
             ELSE IF i.Tilt = IESTiltFile THEN txtFILE ELSE <<>>)>>
       \o (IF i.Tilt = IESTiltInclude
           THEN <<Itoa(i.TiltLampToLuminaireGeometry), Itoa(i.TiltAnglesAndFactors)>>
                \o convertFloatSliceToStringSlice(lineLength, i.TiltAngles)
                \o convertFloatSliceToStringSlice(lineLength, i.TiltMultiplierFactors)
           ELSE <<>>)
       \o convertValuesToStringSlice(lineLength,
              <<Itoa(i.NumberLamps), SprintFloat(i.LumensPerLamp),
                SprintFloat(i.CandelaMultiplier), Itoa(i.NumberVerticalAngles),
                Itoa(i.NumberHorizontalAngles), Itoa(i.PhotometricType),
                Itoa(i.UnitsType), SprintFloat(i.LuminaireWidth),
                SprintFloat(i.LuminaireLength), SprintFloat(i.LuminaireHeight)>>)
       \o convertValuesToStringSlice(lineLength,
              <<SprintFloat(i.BallastFactor), SprintFloat(i.FutureUse),
                SprintFloat(i.InputWatts)>>)
       \o convertFloatSliceToStringSlice(lineLength, i.VerticalAngles)
       \o convertFloatSliceToStringSlice(lineLength, i.HorizontalAngles)
       \o Flatten([r \in 1..Len(i.CandelaValues) |->
                      convertFloatSliceToStringSlice(lineLength, i.CandelaValues[r])])

\* an Export that creates the file and writes the format line before it
\* validates the model
ExportCreatesFirst(i, order) ==
    LET v == Validate(i)
        k == keywordSection(i, order, 1)
    IN IF ~v.ok THEN [lines |-> <<convertFormatToString(i)>>, err |-> v.msg, created |-> TRUE]
       ELSE IF k.err # ""
       THEN [lines |-> <<convertFormatToString(i)>> \o k.lines, err |-> k.err, created |-> TRUE]
       ELSE [lines |-> <<convertFormatToString(i)>> \o k.lines \o dataSection(i),
             err |-> "", created |-> TRUE]

\* IES.Export with the map iterated in the order `order`: [lines, err]; the
\* lines written before an error stay in the file
Export(i, order) ==
    LET v == Validate(i)
        k == keywordSection(i, order, 1)
    IN IF ~v.ok THEN [lines |-> <<>>, err |-> v.msg, created |-> FALSE]
       ELSE IF k.err # ""
       THEN [lines |-> <<convertFormatToString(i)>> \o k.lines, err |-> k.err, created |-> TRUE]
       ELSE [lines |-> <<convertFormatToString(i)>> \o k.lines \o dataSection(i),
             err |-> "", created |-> TRUE]

\* the orders in which a map with these keys can be iterated
Orders(keys) ==
    {o \in [1..Cardinality(keys) -> keys] : \A a, b \in 1..Cardinality(keys) : a # b => o[a] # o[b]}

----------------------------------------------------------------------------
(* ies.go: Upgrade *)

\* the four assignments of "unknown" under  if !i.ContainsRequiredKeywords()
upgradeRequiredKeywords(i) ==
    IF ContainsRequiredKeywords(i) THEN i.Keywords
    ELSE [k \in (DOMAIN i.Keywords) \cup {kwTEST, kwTESTLAB, kwISSUEDATE, kwMANUFAC} |->
             IF k \in DOMAIN i.Keywords THEN i.Keywords[k] ELSE txtUnknown]

\* the keywords of the map the range loop moves when it reaches them
NotAllowed(i) == {k \in DOMAIN i.Keywords : ~isKeywordAllowed(i, k)}

\* the key a value ends under: "_" + keyword, and, when the range loop produces
\* the entry it has just created and that entry is not allowed either, the key
\* that entry is moved to (`revisits` times at most)
\* the key with the underscore behind the keyword
customKeywordSuffixed(i, keyword, revisits) == keyword \o <<"_">>

RECURSIVE customKeyword(_, _, _)
customKeyword(i, keyword, revisits) ==
    With(<<"_">> \o keyword, LAMBDA k :
        IF revisits = 0 \/ k \in DOMAIN i.Keywords \/ isKeywordAllowed(i, k) THEN k
        ELSE customKeyword(i, k, revisits - 1))

\* the variant of the loop body that stores the value of DATE under _DATE
upgradeKeywordDateAsCustom(i, keyword, revisits) ==
    IF keyword \notin DOMAIN i.Keywords \/ isKeywordAllowed(i, keyword) THEN i
    ELSE With(i.Keywords[keyword], LAMBDA value :
            [i EXCEPT !.Keywords =
                MapPut(MapDelete(@, keyword), customKeyword(i, keyword, revisits), value)])

\* one iteration of  for keyword, value := range i.Keywords
upgradeKeyword(i, keyword, revisits) ==
    IF keyword \notin DOMAIN i.Keywords \/ isKeywordAllowed(i, keyword) THEN i
    ELSE With(i.Keywords[keyword], LAMBDA value :
            [i EXCEPT !.Keywords =
                IF keyword = kwDATE THEN MapPut(MapDelete(@, keyword), kwISSUEDATE, value)
                ELSE MapPut(MapDelete(@, keyword), customKeyword(i, keyword, revisits), value)])

RECURSIVE upgradeLoop(_, _, _, _)
upgradeLoop(i, order, n, revisits) ==
    IF n > Len(order) THEN i
    ELSE upgradeLoop(upgradeKeyword(i, order[n], revisits), order, n + 1, revisits)

\* the model Upgrade ranges over: Format set, required keywords filled in
upgradeHead(i) ==
    With([i EXCEPT !.Format = IESFormatLM_63_2002], LAMBDA j :
        [j EXCEPT !.Keywords = upgradeRequiredKeywords(j)])

\* IES.Upgrade: [ies, err]. Go does not fix the order in which range visits a
\* map; the visit of an allowed keyword changes nothing, so `order` lists the
\* keywords that are not allowed in the order the loop reaches them.
Upgrade(i, order, revisits) ==
    With(Validate(i), LAMBDA v :
        IF ~v.ok THEN [ies |-> i, err |-> v.msg]
        ELSE [ies |-> upgradeLoop(upgradeHead(i), order, 1, revisits), err |-> ""])

\* NewIES as a function of the lines and the strict flag: the stages in order
RECURSIVE keywordLoop(_,_,_)
keywordLoop(i, d, p) ==
    LET s == keywordLoopStep(i, d, p)
    IN IF s.err # "" \/ s.tiltReached THEN Ret(s.ies, s.pos, s.err)
       ELSE keywordLoop(s.ies, d, s.pos)

Then(r, F(_,_,_), d) == IF r.err # "" THEN r ELSE F(r.ies, d, r.pos)

NewIES(d, str) ==
    Then(Then(Then(Then(Then(Then(Then(readFormat(d, str),
        keywordLoop, d), readTiltValues, d), readLine10, d), readLine11, d),
        readVerticalAngles, d), readHorizontalAngles, d), readCandelaValues, d)

----------------------------------------------------------------------------
(* Input documents for the parser *)

\* longest run of free keyword-section lines in a generated document
MaxKeywordLines == 3

JoinWords(ws) ==
    IF ws = <<>> THEN <<>>
    ELSE LET RECURSIVE J(_)
             J(k) == IF k = 1 THEN ws[1] ELSE J(k - 1) \o <<" ">> \o ws[k]
         IN J(Len(ws))

\* "[KEY] value"
KwLine(k, v) == <<"[">> \o k \o <<"]", " ">> \o v
\* "TILT=value"
TiltLine(v) == txtTILT \o <<"=">> \o v

\* a keyword line of exactly n characters
LongKwLine(n) == KwLine(kwLAMP, Rep("x", n - 7))

FormatIds == {idIESNA91, idLM63_1995, idLM63_2002}
FormatOfId(id) == parseFormatVersion(id).Format

\* the required keyword lines of a revision, in file order
RequiredLines(id) ==
    IF id = idLM63_2002
    THEN <<KwLine(kwTEST, <<"t">>), KwLine(kwTESTLAB, <<"l">>),
           KwLine(kwISSUEDATE, <<"d">>), KwLine(kwMANUFAC, <<"m">>)>>
    ELSE IF id = idIESNA91
    THEN <<KwLine(kwTEST, <<"t">>), KwLine(kwMANUFAC, <<"m">>)>>
    ELSE <<>>

Range(s) == {s[k] : k \in 1..Len(s)}
\* the subsequence of s whose elements are in keep
Keep(s, keep) == LET In(x) == x \in keep IN SelectSeq(s, In)

\* keyword-section lines that are combined freely
FreeKwLines ==
    {KwLine(kwTEST, <<"a","b","c">>),
     KwLine(kwMORE, <<"d","e">>),
     <<" ","f","g">>,
     KwLine(kwBLOCK, <<"b">>),
     KwLine(kwENDBLOCK, <<"e">>)}

\* keyword-section lines that are tried one at a time
SpecialKwLines ==
    {KwLine(kwDATE, <<"d">>),
     KwLine(<<"_","U","S","E","R">>, <<"u">>),
     KwLine(kwTESTLAB, <<"x">>),
     KwLine(kwOTHER, <<"o">>),
     KwLine(Rep("K", 18), <<"v">>),
     KwLine(Rep("K", 19), <<"v">>),
     KwLine(<<"_">> \o Rep("K", 18), <<"v">>),
     KwLine(<<>>, <<"v">>),
     <<"[">> \o kwMORE \o <<"]">>,
     <<"[">> \o kwTEST \o <<"]", " ", " ", "a", " ", "b", " ">>,
     <<"j","u","n","k">>,
     <<>>,
     LongKwLine(82 - 2),
     LongKwLine(82 - 2 + 1),
     LongKwLine(132 - 2),
     LongKwLine(132 - 2 + 1),
     LongKwLine(256 - 2),
     LongKwLine(256 - 2 + 1)}

SeqsUpTo(S, n) == UNION {[1..k -> S] : k \in 0..n}

TiltLines ==
    {TiltLine(txtNONE), TiltLine(txtINCLUDE),
     TiltLine(<<"f",".","t","x","t">>),
     TiltLine(txtFILE),
     txtTILT \o <<" ","="," ">> \o txtNONE,
     TiltLine(txtNONE \o <<" ">>),
     TiltLine(<<>>)}

N(n) == Itoa(n)

\* data sections after TILT=NONE: 2 vertical angles, 1 horizontal angle
Line10 == JoinWords(<<N(1), N(1000), N(1), N(2), N(1), N(1), N(2), N(0), N(0), N(0)>>)
Line11 == JoinWords(<<N(1), N(2), N(50)>>)
GoodTail == <<Line10, Line11, JoinWords(<<N(0), N(90)>>), <<"0">>, JoinWords(<<N(10), N(20)>>)>>
NoneTails ==
    {GoodTail,
     \* the same values one per line, a blank line in between
     <<JoinWords(<<N(1), N(1000), N(1), N(2), N(1)>>), <<>>,
       JoinWords(<<N(1), N(2), N(0), N(0), N(0)>>), Line11,
       <<"0">>, <<"9","0">>, <<"0">>, <<"1","0">>, <<"2","0">>>>,
     \* line 10 and line 11 on one physical line
     <<Line10 \o <<" ">> \o Line11, JoinWords(<<N(0), N(90)>>), <<"0">>,
       JoinWords(<<N(10), N(20)>>)>>,
     \* input ends with the vertical angles
     <<Line10, Line11, JoinWords(<<N(0), N(90)>>)>>,
     \* input ends inside the candela run
     <<Line10, Line11, JoinWords(<<N(0), N(90)>>), <<"0">>, <<"1","0">>>>,
     \* a value that is no number
     <<Line10, Line11, JoinWords(<<N(0), <<"x">>>>), <<"0">>, JoinWords(<<N(10), N(20)>>)>>,
     \* a negative count
     <<JoinWords(<<N(1), N(1000), N(1), N(-1), N(1), N(1), N(2), N(0), N(0), N(0)>>),
       Line11, <<"0">>, <<"0">>, <<"0">>>>}

\* data sections after TILT=INCLUDE: geometry, pair count, angles, multipliers
\* the tokens of the lines, each on a line of its own
OnePerLine(lines) ==
    LET RECURSIVE T(_)
        T(k) == IF k > Len(lines) THEN <<>> ELSE Words(lines[k]) \o T(k + 1)
    IN T(1)

IncludeTails ==
    {<<<<"1">>, <<"2">>, JoinWords(<<N(0), N(90)>>), JoinWords(<<N(1), <<"0",".","5">>>>)>>
         \o GoodTail,
     OnePerLine(<<<<"1">>, <<"1">>, <<"9","0">>, <<"1">>>> \o GoodTail),
     <<<<"1">>, <<"1">>, <<"0">>, <<"1">>>> \o GoodTail,
     <<<<"1">>, <<"0">>, <<>>, <<>>>> \o GoodTail,
     <<<<"1">>, <<"x">>>> \o GoodTail,
     <<<<>>, <<"1">>>> \o GoodTail,
     <<<<"1">>>>}

\* documents that combine keyword lines freely after the required ones
KeywordDocs ==
    {<<id>> \o RequiredLines(id) \o free \o <<TiltLine(txtNONE)>> \o GoodTail :
        id \in FormatIds, free \in SeqsUpTo(FreeKwLines, MaxKeywordLines)}

\* documents with one special line, before or after the required ones
SpecialDocs ==
    {<<id>> \o RequiredLines(id) \o <<l>> \o <<TiltLine(txtNONE)>> \o GoodTail :
        id \in FormatIds, l \in SpecialKwLines}
    \cup
    {<<id>> \o <<l>> \o RequiredLines(id) \o <<TiltLine(txtNONE)>> \o GoodTail :
        id \in FormatIds, l \in SpecialKwLines}

\* documents with any subset of the 2002 required keyword lines, under each
\* format identifier
RequiredDocs ==
    {<<id>> \o Keep(RequiredLines(idLM63_2002), keep) \o long \o <<t>> \o GoodTail :
        id \in FormatIds, keep \in SUBSET Range(RequiredLines(idLM63_2002)),
        long \in {<<>>, <<LongKwLine(132 - 2 + 1)>>},
        t \in {TiltLine(txtNONE), TiltLine(txtFILE)}}
    \cup
    {<<id>> \o Keep(RequiredLines(idLM63_2002), keep) \o <<TiltLine(txtINCLUDE)>> \o tail :
        id \in FormatIds, keep \in SUBSET Range(RequiredLines(idLM63_2002)),
        tail \in {<<<<"1">>, <<"1">>, <<"0">>, <<"1">>>> \o GoodTail}}

\* documents that vary the TILT line and the data section
DataDocs ==
    {<<id>> \o RequiredLines(id) \o <<t>> \o tail :
        id \in FormatIds, t \in TiltLines \ {TiltLine(txtINCLUDE)}, tail \in NoneTails}
    \cup
    {<<id>> \o RequiredLines(id) \o <<TiltLine(txtINCLUDE)>> \o tail :
        id \in FormatIds, tail \in IncludeTails}

\* documents that fail on the first lines
HeadDocs ==
    {<<>>, <<<<"I","E","S">>>>, <<idLM63_1995>>,
     <<<<" ">> \o idLM63_2002 \o <<" ">>, TiltLine(txtNONE)>> \o GoodTail,
     <<idLM63_2002 \o <<"x">>, TiltLine(txtNONE)>>,
     <<idLM63_1995, TiltLine(txtNONE)>>}

Docs == KeywordDocs \cup SpecialDocs \cup RequiredDocs \cup DataDocs \cup HeadDocs

----------------------------------------------------------------------------
(* The parser as a state machine *)

NoModel == [none |-> TRUE]

InitParse ==
    /\ doc \in Docs
    /\ strict \in BOOLEAN
    /\ pos = 0
    /\ pc = "format"
    /\ err = ""
    /\ ies = ZeroIES
    /\ orig = NoModel
    /\ eul = NoModel
    /\ eorig = NoModel
    /\ conv = NoModel

Advance(r, next) ==
    /\ ies' = r.ies
    /\ pos' = r.pos
    /\ err' = r.err
    /\ pc' = IF r.err # "" THEN "failed" ELSE next
    /\ UNCHANGED <<doc, strict, orig, eul, eorig, conv>>

ReadFormat ==
    /\ pc = "format"
    /\ Advance(readFormat(doc, strict), "keywords")

KeywordLoopStep ==
    /\ pc = "keywords"
    /\ LET s == keywordLoopStep(ies, doc, pos)
       IN Advance(s, IF s.tiltReached THEN "tilt" ELSE "keywords")

ReadTiltValues ==
    /\ pc = "tilt"
    /\ Advance(readTiltValues(ies, doc, pos), "line10")

ReadLine10 ==
    /\ pc = "line10"
    /\ Advance(readLine10(ies, doc, pos), "line11")

ReadLine11 ==
    /\ pc = "line11"
    /\ Advance(readLine11(ies, doc, pos), "vertical")

ReadVerticalAngles ==
    /\ pc = "vertical"
    /\ Advance(readVerticalAngles(ies, doc, pos), "horizontal")

ReadHorizontalAngles ==
    /\ pc = "horizontal"
    /\ Advance(readHorizontalAngles(ies, doc, pos), "candela")

ReadCandelaValues ==
    /\ pc = "candela"
    /\ Advance(readCandelaValues(ies, doc, pos), "done")

ParseNext ==
    \/ ReadFormat
    \/ KeywordLoopStep
    \/ ReadTiltValues
    \/ ReadLine10
    \/ ReadLine11
    \/ ReadVerticalAngles
    \/ ReadHorizontalAngles
    \/ ReadCandelaValues

Init == InitParse
Next == ParseNext
Spec == Init /\ [][Next]_vars

\* the state machine and the function NewIES agree at the end of every run

----------------------------------------------------------------------------
(* spec/iesna95.txt: the EULUMDAT type, calcMc1andMc2, calcMc, the reshape *)

ZeroEulumdat ==
    [CompanyIdentification |-> <<>>, TypeIndicator |-> 0, SymmetryIndicator |-> 0,
     NumberMcCPlanes |-> 0, DistanceDcCPlanes |-> 0,
     NumberNgIntensitiesCPlane |-> 0, DistanceDgCPlane |-> 0,
     MeasurementReportNumber |-> <<>>, LuminaireName |-> <<>>,
     LuminaireNumber |-> <<>>, FileName |-> <<>>, DateUser |-> <<>>,
     LengthDiameter |-> 0, WidthLuminaire |-> 0, HeightLuminaire |-> 0,
     LengthDiameterLuminousArea |-> 0, WidthLuminousArea |-> 0,
     HeightLuminousAreaC0 |-> 0, HeightLuminousAreaC90 |-> 0,
     HeightLuminousAreaC180 |-> 0, HeightLuminousAreaC270 |-> 0,
     DownwardFluxFractionPhiu |-> 0, LightOutputRatioLuminaire |-> 0,
     IntensityConversionFactor |-> 0, MeasurementTiltLuminaire |-> 0,
     NumberStandardSetLamps |-> 0,
     NumberLamps |-> <<>>, TypeLamps |-> <<>>, TotalLuminousFluxLamps |-> <<>>,
     ColorTemperature |-> <<>>, ColorRenderingIndexCRI |-> <<>>, BallastWatts |-> <<>>,
     DirectRatios |-> [k \in 1..10 |-> 0],
     AnglesC |-> <<>>, AnglesG |-> <<>>,
     LuminousIntensityDistributionRaw |-> <<>>, LuminousIntensityDistribution |-> <<>>,
     mc1 |-> 0, mc2 |-> 0, mc |-> 0]

\* integer division of Go: truncation toward zero
Quot(a, b) == IF a >= 0 THEN a \div b ELSE -((-a) \div b)

\* an indicator outside 0..4 leaves mc1 and mc2 as they are
calcMc1andMc2(e) ==
    LET Mc == e.NumberMcCPlanes
    IN IF e.SymmetryIndicator = 0 THEN [e EXCEPT !.mc1 = 1, !.mc2 = Mc]
       ELSE IF e.SymmetryIndicator = 1 THEN [e EXCEPT !.mc1 = 1, !.mc2 = 1]
       ELSE IF e.SymmetryIndicator = 2 THEN [e EXCEPT !.mc1 = 1, !.mc2 = Quot(Mc, 2) + 1]
       ELSE IF e.SymmetryIndicator = 3
       THEN [e EXCEPT !.mc1 = Quot(3 * Mc, 4) + 1,
                      !.mc2 = Quot(3 * Mc, 4) + 1 + Quot(Mc, 2)]
       ELSE IF e.SymmetryIndicator = 4 THEN [e EXCEPT !.mc1 = 1, !.mc2 = Quot(Mc, 4) + 1]
       ELSE e

\* calcMc with indicator 3 falling through to the case of indicator 4
calcMcThreeAsFour(e) ==
    LET Mc == e.NumberMcCPlanes
    IN IF e.SymmetryIndicator = 0 THEN [e EXCEPT !.mc = Mc]
       ELSE IF e.SymmetryIndicator = 1 THEN [e EXCEPT !.mc = 1]
       ELSE IF e.SymmetryIndicator = 2 THEN [e EXCEPT !.mc = Quot(Mc, 2) + 1]
       ELSE IF e.SymmetryIndicator \in {3, 4} THEN [e EXCEPT !.mc = Quot(Mc, 4) + 1]
       ELSE e

\* an indicator outside 0..4 leaves mc as it is
calcMc(e) ==
    LET Mc == e.NumberMcCPlanes
    IN IF e.SymmetryIndicator = 0 THEN [e EXCEPT !.mc = Mc]
       ELSE IF e.SymmetryIndicator = 1 THEN [e EXCEPT !.mc = 1]
       ELSE IF e.SymmetryIndicator \in {2, 3} THEN [e EXCEPT !.mc = Quot(Mc, 2) + 1]
       ELSE IF e.SymmetryIndicator = 4 THEN [e EXCEPT !.mc = Quot(Mc, 4) + 1]
       ELSE e

\* [eul, err]: mc planes of NumberNgIntensitiesCPlane values each, plane i the raw
\* entries i*Ng .. i*Ng+Ng-1; reading past the raw array is a run-time panic
CalcLuminousIntensityDistributionFromRaw(e) ==
    With(calcMc(e), LAMBDA c :
        LET Ng == c.NumberNgIntensitiesCPlane
            raw == c.LuminousIntensityDistributionRaw
        IN IF c.mc < 0 THEN [eul |-> c, err |-> "panic: makeslice: len out of range"]
           ELSE IF c.mc > 0 /\ Ng < 0
           THEN [eul |-> c, err |-> "panic: makeslice: len out of range"]
           ELSE IF c.mc > 0 /\ \E i \in 0..(c.mc - 1) : \E j \in 0..(Ng - 1) : i * Ng + j >= Len(raw)
           THEN [eul |-> c, err |-> "panic: index out of range"]
           ELSE [eul |-> [c EXCEPT !.LuminousIntensityDistribution =
                            [i \in 1..c.mc |-> [j \in 1..Ng |-> raw[(i - 1) * Ng + j]]]],
                 err |-> ""])

\* the length of the intensity run of a file, with mc1 and mc2 derived again
dataLengthOf(e) ==
    With(calcMc1andMc2(e), LAMBDA c : (c.mc2 - c.mc1 + 1) * c.NumberNgIntensitiesCPlane)

\* a Validate that compares AnglesG before AnglesC
EulumdatValidateAnglesGFirst(e) ==
    LET n == e.NumberStandardSetLamps
        Bad(m) == [ok |-> FALSE, msg |-> m]
    IN IF n # Len(e.NumberLamps) THEN Bad("NumberLamps length mismatch")
       ELSE IF n # Len(e.TypeLamps) THEN Bad("TypeLamps length mismatch")
       ELSE IF n # Len(e.TotalLuminousFluxLamps) THEN Bad("TotalLuminousFluxLamps length mismatch")
       ELSE IF n # Len(e.ColorTemperature) THEN Bad("ColorTemperature length mismatch")
       ELSE IF n # Len(e.ColorRenderingIndexCRI) THEN Bad("ColorRenderingIndexCRI length mismatch")
       ELSE IF n # Len(e.BallastWatts) THEN Bad("BallastWatts length mismatch")
       ELSE IF e.NumberNgIntensitiesCPlane # Len(e.AnglesG) THEN Bad("AnglesG length mismatch")
       ELSE IF e.NumberMcCPlanes # Len(e.AnglesC) THEN Bad("AnglesC length mismatch")
       ELSE IF dataLengthOf(e) # Len(e.LuminousIntensityDistributionRaw)
       THEN Bad("LuminousIntensityDistributionRaw length mismatch")
       ELSE [ok |-> TRUE, msg |-> ""]

\* Eulumdat.Validate: [ok, msg]; the strict argument guards an empty block
EulumdatValidate(e) ==
    LET n == e.NumberStandardSetLamps
        Bad(m) == [ok |-> FALSE, msg |-> m]
    IN IF n # Len(e.NumberLamps) THEN Bad("NumberLamps length mismatch")
       ELSE IF n # Len(e.TypeLamps) THEN Bad("TypeLamps length mismatch")
       ELSE IF n # Len(e.TotalLuminousFluxLamps) THEN Bad("TotalLuminousFluxLamps length mismatch")
       ELSE IF n # Len(e.ColorTemperature) THEN Bad("ColorTemperature length mismatch")
       ELSE IF n # Len(e.ColorRenderingIndexCRI) THEN Bad("ColorRenderingIndexCRI length mismatch")
       ELSE IF n # Len(e.BallastWatts) THEN Bad("BallastWatts length mismatch")
       ELSE IF e.NumberMcCPlanes # Len(e.AnglesC) THEN Bad("AnglesC length mismatch")
       ELSE IF e.NumberNgIntensitiesCPlane # Len(e.AnglesG) THEN Bad("AnglesG length mismatch")
       ELSE IF dataLengthOf(e) # Len(e.LuminousIntensityDistributionRaw)
       THEN Bad("LuminousIntensityDistributionRaw length mismatch")
       ELSE [ok |-> TRUE, msg |-> ""]

\* the lines a reader finds in the strings written one after the other, each
\* followed by a line terminator
FileLines(strs) == Flatten([k \in 1..Len(strs) |-> SplitLines(strs[k])])

F6(seq) == [k \in 1..Len(seq) |-> FormatFloat6(seq[k])]

\* Eulumdat.Export: [lines, err]
EulumdatExport(e) ==
    LET v == EulumdatValidate(e)
        lamps == Flatten([k \in 1..e.NumberStandardSetLamps |->
                     <<Itoa(e.NumberLamps[k]), e.TypeLamps[k],
                       FormatFloat6(e.TotalLuminousFluxLamps[k]), e.ColorTemperature[k],
                       e.ColorRenderingIndexCRI[k], FormatFloat6(e.BallastWatts[k])>>])
    IN IF ~v.ok THEN [lines |-> <<>>, err |-> v.msg]
       ELSE [lines |-> FileLines(
               <<e.CompanyIdentification, Itoa(e.TypeIndicator), Itoa(e.SymmetryIndicator),
                 Itoa(e.NumberMcCPlanes), FormatFloat6(e.DistanceDcCPlanes),
                 Itoa(e.NumberNgIntensitiesCPlane), FormatFloat6(e.DistanceDgCPlane),
                 e.MeasurementReportNumber, e.LuminaireName, e.LuminaireNumber,
                 e.FileName, e.DateUser>>
               \o F6(<<e.LengthDiameter, e.WidthLuminaire, e.HeightLuminaire,
                       e.LengthDiameterLuminousArea, e.WidthLuminousArea,
                       e.HeightLuminousAreaC0, e.HeightLuminousAreaC90,
                       e.HeightLuminousAreaC180, e.HeightLuminousAreaC270,
                       e.DownwardFluxFractionPhiu, e.LightOutputRatioLuminaire,
                       e.IntensityConversionFactor, e.MeasurementTiltLuminaire>>)
               \o <<Itoa(e.NumberStandardSetLamps)>>
               \o lamps
               \o F6(e.DirectRatios)
               \o F6(e.AnglesC)
               \o F6(e.AnglesG)
               \o F6(SubSeq(e.LuminousIntensityDistributionRaw, 1, dataLengthOf(e)))),
             err |-> ""]

----------------------------------------------------------------------------
(* spec/iesna95.txt: GetMaximumLuminousIntensity, GetFwhm, GetFwtm *)

\* math.MaxFloat64: above every difference of two intensities of the model
MaxFloat64 == 2000000000

\* the sentinel -1, in hundredths
NoAngle == -100

\* max over the plane, starting from 0.0: [val, err]; the plane is indexed
\* without a check
GetMaximumLuminousIntensity(e, planeIndex) ==
    IF planeIndex + 1 \notin DOMAIN e.LuminousIntensityDistribution
    THEN [val |-> 0, err |-> "panic: index out of range"]
    ELSE With(e.LuminousIntensityDistribution[planeIndex + 1], LAMBDA plane :
            [val |-> CHOOSE m \in {0} \cup {plane[k] : k \in DOMAIN plane} :
                        \A k \in DOMAIN plane : plane[k] <= m /\ 0 <= m,
             err |-> ""])

\* the loop over the intensities of the plane from index n on: [val, err].
\* Differences are compared times `divisor`, so that maxIntensity / divisor
\* needs no fraction.
RECURSIVE closestAngle(_, _, _, _, _, _, _)
closestAngle(e, plane, maxIntensity, divisor, n, minDiff, angle) ==
    IF n > Len(plane) THEN [val |-> angle, err |-> ""]
    ELSE With(Abs(divisor * plane[n] - maxIntensity), LAMBDA diff :
            IF diff < minDiff
            THEN IF n \notin DOMAIN e.AnglesG THEN [val |-> angle, err |-> "panic: index out of range"]
                 ELSE IF e.AnglesG[n] <= 9000
                 THEN closestAngle(e, plane, maxIntensity, divisor, n + 1, diff, e.AnglesG[n])
                 ELSE closestAngle(e, plane, maxIntensity, divisor, n + 1, minDiff, angle)
            ELSE closestAngle(e, plane, maxIntensity, divisor, n + 1, minDiff, angle))

\* the body GetFwhm and GetFwtm share, the target being maxIntensity / divisor
beamWidth(e, planeIndex, divisor) ==
    IF planeIndex = -1 \/ planeIndex >= e.mc THEN [val |-> NoAngle, err |-> ""]
    ELSE IF e.SymmetryIndicator # 1 /\ e.SymmetryIndicator # 4 THEN [val |-> NoAngle, err |-> ""]
    ELSE With(GetMaximumLuminousIntensity(e, planeIndex), LAMBDA m :
            IF m.err # "" THEN [val |-> 0, err |-> m.err]
            ELSE With(closestAngle(e, e.LuminousIntensityDistribution[planeIndex + 1],
                                   m.val, divisor, 1, MaxFloat64, NoAngle), LAMBDA a :
                    IF a.err # "" THEN [val |-> 0, err |-> a.err]
                    ELSE IF a.val < 0 THEN [val |-> NoAngle, err |-> ""]
                    ELSE [val |-> a.val * 2, err |-> ""]))

GetFwhm(e, planeIndex) == beamWidth(e, planeIndex, 2)

GetFwtm(e, planeIndex) == beamWidth(e, planeIndex, 10)

----------------------------------------------------------------------------
(* spec/iesna95.txt: NewEulumdat *)

\* how a line is read: a string with its length limit, an integer, a float
StrLine(max) == [t |-> "string", max |-> max]
IntLine == [t |-> "int", max |-> 0]
FltLine == [t |-> "float", max |-> 0]

\* readValue that enforces the length limit whatever the strict flag says
readValueAlwaysStrict(d, p, kind, str) ==
    IF kind.t = "string"
    THEN LET r == validateStringFromLine(d, p, kind.max, TRUE)
         IN [v |-> r.line, pos |-> r.pos, err |-> r.err]
    ELSE IF kind.t = "int" THEN validateIntFromLine(d, p)
    ELSE validateFloatFromLine(d, p)

\* [v, pos, err]
readValue(d, p, kind, str) ==
    IF kind.t = "string"
    THEN LET r == validateStringFromLine(d, p, kind.max, str)
         IN [v |-> r.line, pos |-> r.pos, err |-> r.err]
    ELSE IF kind.t = "int" THEN validateIntFromLine(d, p)
    ELSE validateFloatFromLine(d, p)

\* the lines read one after the other, one value per line, up to the first
\* error: [vals, pos, err]
readValues(d, p, kinds, str) ==
    With(kinds, LAMBDA ks :
    With([k \in 1..Len(ks) |-> readValue(d, p + k - 1, ks[k], str)], LAMBDA rs :
    With({k \in 1..Len(ks) : rs[k].err # ""}, LAMBDA bad :
        IF bad = {}
        THEN [vals |-> [k \in 1..Len(ks) |-> rs[k].v], pos |-> p + Len(ks), err |-> ""]
        ELSE With(CHOOSE k \in bad : \A k2 \in bad : k <= k2, LAMBDA first :
                [vals |-> [k \in 1..(first - 1) |-> rs[k].v],
                 pos |-> rs[first].pos, err |-> rs[first].err]))))

\* fields 1 to 26
HeaderKinds ==
    <<StrLine(78), IntLine, IntLine, IntLine, FltLine, IntLine, FltLine, StrLine(78), StrLine(78), StrLine(78), StrLine(8), StrLine(78),
      FltLine, FltLine, FltLine, FltLine, FltLine, FltLine, FltLine, FltLine, FltLine, FltLine, FltLine, FltLine, FltLine, IntLine>>

\* fields 26a to 26f of one lamp set
LampKinds == <<IntLine, StrLine(24), FltLine, StrLine(16), StrLine(6), FltLine>>

Floats(n) == [k \in 1..n |-> FltLine]

\* element f of each of the n lamp sets read into vals
LampColumn(vals, n, f) == [k \in 1..n |-> vals[(k - 1) * 6 + f]]

\* The stages of NewEulumdat; each returns [eul, pos, err]
RetE(e, p, m) == [eul |-> e, pos |-> p, err |-> m]

\* fields 1 to 26
readHeader(d, str) ==
    With(readValues(d, 0, HeaderKinds, str), LAMBDA h :
       IF h.err # "" THEN RetE(ZeroEulumdat, h.pos, h.err)
       ELSE RetE([ZeroEulumdat EXCEPT
                   !.CompanyIdentification = h.vals[1], !.TypeIndicator = h.vals[2],
                   !.SymmetryIndicator = h.vals[3], !.NumberMcCPlanes = h.vals[4],
                   !.DistanceDcCPlanes = h.vals[5], !.NumberNgIntensitiesCPlane = h.vals[6],
                   !.DistanceDgCPlane = h.vals[7], !.MeasurementReportNumber = h.vals[8],
                   !.LuminaireName = h.vals[9], !.LuminaireNumber = h.vals[10],
                   !.FileName = h.vals[11], !.DateUser = h.vals[12],
                   !.LengthDiameter = h.vals[13], !.WidthLuminaire = h.vals[14],
                   !.HeightLuminaire = h.vals[15],
                   !.LengthDiameterLuminousArea = h.vals[16],
                   !.WidthLuminousArea = h.vals[17], !.HeightLuminousAreaC0 = h.vals[18],
                   !.HeightLuminousAreaC90 = h.vals[19],
                   !.HeightLuminousAreaC180 = h.vals[20],
                   !.HeightLuminousAreaC270 = h.vals[21],
                   !.DownwardFluxFractionPhiu = h.vals[22],
                   !.LightOutputRatioLuminaire = h.vals[23],
                   !.IntensityConversionFactor = h.vals[24],
                   !.MeasurementTiltLuminaire = h.vals[25],
                   !.NumberStandardSetLamps = h.vals[26]],
                 h.pos, ""))

\* fields 26a to 26f, NumberStandardSetLamps times
readLampSets(e, d, p, str) ==
    LET n == e.NumberStandardSetLamps
    IN IF n < 0 THEN RetE(ZeroEulumdat, p, "panic: makeslice: len out of range")
       ELSE With(readValues(d, p, Flatten([k \in 1..n |-> LampKinds]), str), LAMBDA l :
       IF l.err # "" THEN RetE(ZeroEulumdat, l.pos, l.err)
       ELSE RetE([e EXCEPT !.NumberLamps = LampColumn(l.vals, n, 1),
                           !.TypeLamps = LampColumn(l.vals, n, 2),
                           !.TotalLuminousFluxLamps = LampColumn(l.vals, n, 3),
                           !.ColorTemperature = LampColumn(l.vals, n, 4),
                           !.ColorRenderingIndexCRI = LampColumn(l.vals, n, 5),
                           !.BallastWatts = LampColumn(l.vals, n, 6)],
                 l.pos, ""))

\* field 27: the 10 direct ratios
readDirectRatios(e, d, p, str) ==
    With(readValues(d, p, Floats(10), str), LAMBDA r :
       IF r.err # "" THEN RetE(ZeroEulumdat, r.pos, r.err)
       ELSE RetE([e EXCEPT !.DirectRatios = r.vals], r.pos, ""))

\* fields 28 and 29: the C angles, then the G angles
readAngles(e, d, p, str) ==
    LET Mc == e.NumberMcCPlanes
        Ng == e.NumberNgIntensitiesCPlane
    IN IF Mc < 0 THEN RetE(ZeroEulumdat, p, "panic: makeslice: len out of range")
       ELSE With(readValues(d, p, Floats(Mc), str), LAMBDA c :
       IF c.err # "" THEN RetE(ZeroEulumdat, c.pos, c.err)
       ELSE IF Ng < 0 THEN RetE(ZeroEulumdat, c.pos, "panic: makeslice: len out of range")
       ELSE With(readValues(d, c.pos, Floats(Ng), str), LAMBDA g :
       IF g.err # "" THEN RetE(ZeroEulumdat, g.pos, g.err)
       ELSE RetE([e EXCEPT !.AnglesC = c.vals, !.AnglesG = g.vals], g.pos, "")))

\* field 30: the intensity run, then the split into planes
readIntensities(e, d, p, str) ==
    With(calcMc1andMc2(e), LAMBDA e0 :
    With((e0.mc2 - e0.mc1 + 1) * e0.NumberNgIntensitiesCPlane, LAMBDA dataLength :
       IF dataLength < 0 THEN RetE(ZeroEulumdat, p, "panic: makeslice: len out of range")
       ELSE With(readValues(d, p, Floats(dataLength), str), LAMBDA w :
       IF w.err # "" THEN RetE(ZeroEulumdat, w.pos, w.err)
       ELSE With(CalcLuminousIntensityDistributionFromRaw(
                    [e0 EXCEPT !.LuminousIntensityDistributionRaw = w.vals]), LAMBDA s :
       IF s.err # "" THEN RetE(ZeroEulumdat, w.pos, s.err)
       ELSE RetE(s.eul, w.pos, "")))))

ThenE(r, F(_,_,_,_), d, str) == IF r.err # "" THEN r ELSE F(r.eul, d, r.pos, str)

\* NewEulumdat as a function of the lines and the strict flag
NewEulumdat(d, str) ==
    ThenE(ThenE(ThenE(ThenE(readHeader(d, str), readLampSets, d, str),
        readDirectRatios, d, str), readAngles, d, str), readIntensities, d, str)

----------------------------------------------------------------------------
(* conversion.go *)

txtConverted ==
    <<"c","o","n","v","e","r","t","e","d"," ","u","s","i","n","g"," ",
      "e","u","l","u","m","i","e","s",":"," ">>

\* the slices of the result that are assigned from the argument without a
\* copy, <<field of IES, field of Eulumdat>>: each pair has one backing array
SharedSlices ==
    {<<"VerticalAngles", "AnglesG">>, <<"CandelaValues", "LuminousIntensityDistribution">>}

\* [ies, err]: reading element 0 of an empty array is a run-time panic
ConvertEulumdatToIES(e) ==
    IF \/ Len(e.TypeLamps) = 0 \/ Len(e.NumberLamps) = 0
       \/ Len(e.TotalLuminousFluxLamps) = 0 \/ Len(e.BallastWatts) = 0
    THEN [ies |-> NoModel, err |-> "panic: index out of range"]
    ELSE [ies |->
            [ZeroIES EXCEPT
               !.Format = IESFormatLM_63_2002, !.Tilt = IESTiltNone,
               !.Keywords =
                   [k \in {kwTEST, kwTESTLAB, kwISSUEDATE, kwMANUFAC, kwLUMINAIRE,
                           kwLUMCAT, kwLAMP, kwOTHER} |->
                       IF k = kwTEST THEN e.MeasurementReportNumber
                       ELSE IF k = kwTESTLAB THEN e.CompanyIdentification
                       ELSE IF k = kwISSUEDATE THEN e.DateUser
                       ELSE IF k = kwMANUFAC THEN e.CompanyIdentification
                       ELSE IF k = kwLUMINAIRE THEN e.LuminaireName
                       ELSE IF k = kwLUMCAT THEN e.LuminaireNumber
                       ELSE IF k = kwLAMP THEN e.TypeLamps[1]
                       ELSE txtConverted \o e.FileName],
               !.NumberLamps = e.NumberLamps[1],
               !.LumensPerLamp = e.TotalLuminousFluxLamps[1],
               !.CandelaMultiplier = 100,
               !.NumberVerticalAngles = Len(e.AnglesG),
               !.NumberHorizontalAngles = 1,
               !.PhotometricType = 1, !.UnitsType = 2,
               !.LuminaireWidth = e.WidthLuminaire,
               !.LuminaireLength = e.LengthDiameter,
               !.LuminaireHeight = e.HeightLuminaire,
               !.BallastFactor = 100, !.FutureUse = 100,
               !.InputWatts = e.BallastWatts[1],
               !.VerticalAngles = e.AnglesG,
               !.HorizontalAngles = <<0>>,
               !.CandelaValues = e.LuminousIntensityDistribution],
          err |-> ""]

\* return nil, nil: no model and no error
ConvertIESToEulumdat(i) == [eul |-> NoModel, err |-> ""]

----------------------------------------------------------------------------
(* IES models for Export *)

\* largest number of vertical angles, and of horizontal angles, of a model
MaxAngles == 2

Val(c) == <<c>>

\* the keywords a model of the revision must have to pass Validate
RequiredKeywords(f) ==
    IF f = IESFormatLM_63_2002
    THEN [k \in {kwTEST, kwTESTLAB, kwISSUEDATE, kwMANUFAC} |-> Val("v")]
    ELSE IF f = IESFormatLM_63_1991 THEN [k \in {kwTEST, kwMANUFAC} |-> Val("v")]
    ELSE <<>>

AngleValues == <<0, 4500, 9000, 13500>>

\* a model with nv vertical and nh horizontal angles and a full candela grid
BaseModel(f, nv, nh) ==
    [ZeroIES EXCEPT
        !.Format = f, !.Keywords = RequiredKeywords(f), !.Tilt = IESTiltNone,
        !.NumberLamps = 1, !.LumensPerLamp = 100000, !.CandelaMultiplier = 100,
        !.NumberVerticalAngles = nv, !.NumberHorizontalAngles = nh,
        !.PhotometricType = 1, !.UnitsType = 2,
        !.LuminaireWidth = 50, !.LuminaireLength = 125, !.LuminaireHeight = 0,
        !.BallastFactor = 100, !.FutureUse = 100, !.InputWatts = 5000,
        !.VerticalAngles = SubSeq(AngleValues, 1, nv),
        !.HorizontalAngles = SubSeq(AngleValues, 1, nh),
        !.CandelaValues = [r \in 1..nh |-> [k \in 1..nv |-> 1000 * r + 100 * k + 25]]]

ExportFormats == {IESFormatLM_63_1991, IESFormatLM_63_1995, IESFormatLM_63_2002}

\* the variations of one base model, one at a time
Variants(m) ==
    {m,
     [m EXCEPT !.Keywords = MapPut(@, kwLAMP, <<"a", "b", NL, "c", "d">>)],
     [m EXCEPT !.Keywords = MapPut(@, kwLAMP, <<>>)],
     [m EXCEPT !.Keywords = MapPut(@, kwOTHER, <<"o", " ", "p">>)],
     [m EXCEPT !.Keywords = MapPut(@, kwLAMP, Rep("v", 2 * maxKeywordLineLength(m)))],
     [m EXCEPT !.Keywords = MapPut(@, <<"_", "A", "B">>, Rep("v", 2 * maxKeywordLineLength(m)))],
     [m EXCEPT !.BallastFactor = 95],
     [m EXCEPT !.FutureUse = 200],
     [m EXCEPT !.Tilt = IESTiltInclude, !.TiltLampToLuminaireGeometry = 1,
               !.TiltAnglesAndFactors = 2, !.TiltAngles = <<0, 9000>>,
               !.TiltMultiplierFactors = <<100, 50>>],
     [m EXCEPT !.Tilt = IESTiltInclude, !.TiltLampToLuminaireGeometry = 1,
               !.TiltAnglesAndFactors = 2, !.TiltAngles = <<0>>,
               !.TiltMultiplierFactors = <<100, 50>>],
     [m EXCEPT !.Tilt = IESTiltInclude, !.TiltLampToLuminaireGeometry = 1,
               !.TiltAnglesAndFactors = 1, !.TiltAngles = <<0>>,
               !.TiltMultiplierFactors = <<>>],
     [m EXCEPT !.Tilt = IESTiltFile],
     [m EXCEPT !.Format = IESFormatLM_63_1986],
     [m EXCEPT !.NumberLamps = -1, !.LumensPerLamp = -100, !.LuminaireHeight = -250],
     [m EXCEPT !.NumberVerticalAngles = @ + 1],
     [m EXCEPT !.HorizontalAngles = <<>>],
     [m EXCEPT !.CandelaValues = <<>>],
     [m EXCEPT !.CandelaValues = [r \in DOMAIN @ |-> <<>>]],
     [m EXCEPT !.Keywords = <<>>]}

IESModels ==
    UNION {Variants(BaseModel(f, 2, 1)) : f \in ExportFormats}
    \cup {BaseModel(f, nv, nh) : f \in ExportFormats, nv \in 1..MaxAngles, nh \in 1..MaxAngles}

\* the fields of the IES type that are part of the model (not parse state)
Declared(i) ==
    [Format |-> i.Format, Keywords |-> i.Keywords, Tilt |-> i.Tilt,
     TiltLampToLuminaireGeometry |-> i.TiltLampToLuminaireGeometry,
     TiltAnglesAndFactors |-> i.TiltAnglesAndFactors,
     TiltAngles |-> i.TiltAngles, TiltMultiplierFactors |-> i.TiltMultiplierFactors,
     NumberLamps |-> i.NumberLamps, LumensPerLamp |-> i.LumensPerLamp,
     CandelaMultiplier |-> i.CandelaMultiplier,
     NumberVerticalAngles |-> i.NumberVerticalAngles,
     NumberHorizontalAngles |-> i.NumberHorizontalAngles,
     PhotometricType |-> i.PhotometricType, UnitsType |-> i.UnitsType,
     LuminaireWidth |-> i.LuminaireWidth, LuminaireLength |-> i.LuminaireLength,
     LuminaireHeight |-> i.LuminaireHeight,
     BallastFactor |-> i.BallastFactor, FutureUse |-> i.FutureUse,
     InputWatts |-> i.InputWatts,
     VerticalAngles |-> i.VerticalAngles, HorizontalAngles |-> i.HorizontalAngles,
     CandelaValues |-> i.CandelaValues]

----------------------------------------------------------------------------
(* Export followed by NewIES on the written lines *)

InitRoundTrip ==
    /\ orig \in IESModels
    /\ strict \in BOOLEAN
    /\ doc = <<>>
    /\ pos = 0
    /\ pc = "export"
    /\ err = ""
    /\ ies = ZeroIES
    /\ eul = NoModel
    /\ eorig = NoModel
    /\ conv = NoModel

\* IES.Export of orig; the file is then read by NewIES
ExportIES ==
    /\ pc = "export"
    /\ orig # NoModel
    /\ \E order \in Orders(DOMAIN orig.Keywords) :
          LET e == Export(orig, order)
          IN /\ doc' = e.lines
             /\ err' = e.err
             /\ pc' = IF e.err # "" THEN "export failed" ELSE "format"
    /\ UNCHANGED <<strict, pos, ies, orig, eul, eorig, conv>>

\* ConvertIESToEulumdat on orig
CallConvertIESToEulumdat ==
    /\ pc = "export"
    /\ orig # NoModel
    /\ LET c == ConvertIESToEulumdat(orig)
       IN /\ conv' = [result |-> c.eul, err |-> c.err]
          /\ pc' = "converted"
    /\ UNCHANGED <<doc, strict, pos, err, ies, orig, eul, eorig>>

NextRoundTrip == ExportIES \/ CallConvertIESToEulumdat \/ ParseNext

SpecIESRoundTrip == InitRoundTrip /\ [][NextRoundTrip]_vars

----------------------------------------------------------------------------
(* EULUMDAT models, and Export / NewEulumdat / ConvertEulumdatToIES on them *)

\* largest number of C-planes, of intensities per plane and of lamp sets
MaxMc == 8
MaxNg == 2
MaxLampSets == 2

\* a model as NewEulumdat builds it: sets lamp sets, Mc C-planes, Ng intensities
\* per plane, the raw run numbered in file order
EulShape(sym, Mc, Ng, sets) ==
    LET e0 == [ZeroEulumdat EXCEPT
                 !.CompanyIdentification = <<"c", "o">>, !.TypeIndicator = 1,
                 !.SymmetryIndicator = sym, !.NumberMcCPlanes = Mc,
                 !.DistanceDcCPlanes = 1500, !.NumberNgIntensitiesCPlane = Ng,
                 !.DistanceDgCPlane = 500,
                 !.MeasurementReportNumber = <<"r", " ", "1">>,
                 !.LuminaireName = <<"n", "a">>, !.LuminaireNumber = <<"4", "2">>,
                 !.FileName = Rep("f", 8), !.DateUser = <<>>,
                 !.LengthDiameter = 130000, !.WidthLuminaire = 14000,
                 !.HeightLuminaire = 1500, !.LengthDiameterLuminousArea = 1600,
                 !.WidthLuminousArea = 0, !.HeightLuminousAreaC0 = 1800,
                 !.HeightLuminousAreaC90 = 1900, !.HeightLuminousAreaC180 = 2000,
                 !.HeightLuminousAreaC270 = 2100, !.DownwardFluxFractionPhiu = 10000,
                 !.LightOutputRatioLuminaire = 9000, !.IntensityConversionFactor = 100,
                 !.MeasurementTiltLuminaire = -300,
                 !.NumberStandardSetLamps = sets,
                 !.NumberLamps = [k \in 1..sets |-> k],
                 !.TypeLamps = [k \in 1..sets |-> <<"L", "E", "D">>],
                 !.TotalLuminousFluxLamps = [k \in 1..sets |-> 100000 * k],
                 !.ColorTemperature = [k \in 1..sets |-> <<"3", "0", "0", "0">>],
                 !.ColorRenderingIndexCRI = [k \in 1..sets |-> <<"8", "0">>],
                 !.BallastWatts = [k \in 1..sets |-> 1000 * k],
                 !.DirectRatios = [k \in 1..10 |-> 100 * k],
                 !.AnglesC = [k \in 1..Mc |-> 1500 * (k - 1)],
                 !.AnglesG = [k \in 1..Ng |-> 500 * (k - 1)]]
        e1 == [e0 EXCEPT !.LuminousIntensityDistributionRaw =
                            [k \in 1..dataLengthOf(e0) |-> 100 * k]]
    IN CalcLuminousIntensityDistributionFromRaw(calcMc1andMc2(e1)).eul

\* the variations of one model, one at a time
EulVariants(m) ==
    {[m EXCEPT !.FileName = Rep("f", 8 + 1)],
     [m EXCEPT !.LuminaireName = Rep("n", 78)],
     [m EXCEPT !.LuminaireName = Rep("n", 78 + 1)],
     [m EXCEPT !.TypeLamps[1] = Rep("t", 24 + 1)],
     [m EXCEPT !.ColorTemperature[1] = Rep("k", 16 + 1)],
     [m EXCEPT !.ColorRenderingIndexCRI[1] = Rep("r", 6 + 1)],
     [m EXCEPT !.LuminaireName = <<" ", "n">>],
     [m EXCEPT !.DateUser = <<"d", NL, "u">>],
     [m EXCEPT !.LuminousIntensityDistribution = <<>>],
     [m EXCEPT !.LuminousIntensityDistributionRaw = Tail(@)],
     [m EXCEPT !.AnglesC = Tail(@)],
     [m EXCEPT !.AnglesG = <<>>],
     [m EXCEPT !.BallastWatts = <<>>],
     [m EXCEPT !.NumberStandardSetLamps = 0]}

\* models whose arrays disagree with the declared counts, one array or
\* several at a time, and a model with stale private mc1 / mc2
LengthVariants(m) ==
    {[m EXCEPT !.NumberLamps = <<>>],
     [m EXCEPT !.TypeLamps = <<>>],
     [m EXCEPT !.TotalLuminousFluxLamps = @ \o @],
     [m EXCEPT !.ColorTemperature = <<>>],
     [m EXCEPT !.ColorRenderingIndexCRI = @ \o @],
     [m EXCEPT !.ColorRenderingIndexCRI = <<>>, !.AnglesC = Tail(@)],
     [m EXCEPT !.AnglesC = Tail(@), !.AnglesG = Tail(@)],
     [m EXCEPT !.AnglesG = Tail(@), !.LuminousIntensityDistributionRaw = <<>>],
     [m EXCEPT !.BallastWatts = <<>>, !.TypeLamps = <<>>],
     [m EXCEPT !.LuminousIntensityDistributionRaw = @ \o <<100>>],
     [m EXCEPT !.mc1 = 3, !.mc2 = 7]}

EulModels ==
    {EulShape(sym, Mc, Ng, 1) : sym \in 0..5, Mc \in 0..MaxMc, Ng \in 0..MaxNg}
    \cup LengthVariants(EulShape(2, 4, 2, 1))
    \cup LengthVariants(EulShape(3, 8, 1, 1))
    \cup {EulShape(2, 4, 2, sets) : sets \in 0..MaxLampSets}
    \cup {EulShape(1, 24, 19, sets) : sets \in 0..1}
    \cup EulVariants(EulShape(2, 4, 2, 1))

InitEulumdat ==
    /\ eorig \in EulModels
    /\ strict \in BOOLEAN
    /\ doc = <<>>
    /\ pos = 0
    /\ pc = "export"
    /\ err = ""
    /\ ies = ZeroIES
    /\ orig = NoModel
    /\ eul = NoModel
    /\ conv = NoModel

\* Eulumdat.Export of eorig
CallEulumdatExport ==
    /\ pc = "export"
    /\ eorig # NoModel
    /\ LET e == EulumdatExport(eorig)
       IN /\ doc' = e.lines
          /\ err' = e.err
          /\ pc' = IF e.err # "" THEN "export failed" ELSE "parse"
    /\ UNCHANGED <<strict, pos, ies, orig, eul, eorig, conv>>

\* NewEulumdat on the written lines, stage by stage
AdvanceE(r, next) ==
    /\ eul' = r.eul
    /\ pos' = r.pos
    /\ err' = r.err
    /\ pc' = IF r.err # "" THEN "failed" ELSE next
    /\ UNCHANGED <<doc, strict, ies, orig, eorig, conv>>

ReadHeader ==
    /\ pc = "parse"
    /\ AdvanceE(readHeader(doc, strict), "lamps")

ReadLampSets ==
    /\ pc = "lamps"
    /\ AdvanceE(readLampSets(eul, doc, pos, strict), "ratios")

ReadDirectRatios ==
    /\ pc = "ratios"
    /\ AdvanceE(readDirectRatios(eul, doc, pos, strict), "angles")

ReadAngles ==
    /\ pc = "angles"
    /\ AdvanceE(readAngles(eul, doc, pos, strict), "intensities")

ReadIntensities ==
    /\ pc = "intensities"
    /\ AdvanceE(readIntensities(eul, doc, pos, strict), "parsed")

\* ConvertEulumdatToIES on the parsed model
CallConvertEulumdatToIES ==
    /\ pc = "parsed"
    /\ LET c == ConvertEulumdatToIES(eul)
       IN /\ conv' = [result |-> c.ies, err |-> c.err]
          /\ pc' = "converted"
    /\ UNCHANGED <<doc, strict, pos, err, ies, orig, eul, eorig>>

\* a caller assigns an element of the returned model in place:
\* ies.VerticalAngles[k] = v  or  ies.CandelaValues[r][k] = v. The write goes
\* to the backing array, so every slice that shares it shows the new value
\* (the value stored here, -7.0, is none a model holds).
SetConvertedElement ==
    /\ pc = "converted"
    /\ eorig # NoModel
    /\ conv.err = ""
    /\ \/ \E k \in DOMAIN conv.result.VerticalAngles :
             /\ conv' = [conv EXCEPT !.result.VerticalAngles[k] = -700]
             /\ eul' = IF <<"VerticalAngles", "AnglesG">> \in SharedSlices
                       THEN [eul EXCEPT !.AnglesG[k] = -700] ELSE eul
       \/ \E r \in DOMAIN conv.result.CandelaValues :
             \E k \in DOMAIN conv.result.CandelaValues[r] :
                /\ conv' = [conv EXCEPT !.result.CandelaValues[r][k] = -700]
                /\ eul' = IF <<"CandelaValues", "LuminousIntensityDistribution">> \in SharedSlices
                          THEN [eul EXCEPT !.LuminousIntensityDistribution[r][k] = -700]
                          ELSE eul
    /\ pc' = "modified"
    /\ UNCHANGED <<doc, strict, pos, err, ies, orig, eorig>>

NextEulumdat ==
    \/ SetConvertedElement
    \/ CallEulumdatExport
    \/ ReadHeader
    \/ ReadLampSets
    \/ ReadDirectRatios
    \/ ReadAngles
    \/ ReadIntensities
    \/ CallConvertEulumdatToIES

SpecEulumdat == InitEulumdat /\ [][NextEulumdat]_vars

----------------------------------------------------------------------------
(* EULUMDAT models for the width queries *)

\* largest number of G-angles of a plane
MaxBeamAngles == 3

BeamAngles == {<<0, 4500, 9000, 13500>>, <<0, 9000, 13500, 18000>>, <<9500, 13500, 18000, 18500>>}

BeamIntensities == {0, 200, 400, 600, 1000}

Reverse(seq) == [k \in 1..Len(seq) |-> seq[Len(seq) + 1 - k]]

\* the model NewEulumdat builds for these angles and this first plane; a
\* further plane holds the same intensities in reverse
BeamShape(sym, Mc, angles, plane) ==
    With(EulShape(sym, Mc, Len(angles), 1), LAMBDA e0 :
        With([e0 EXCEPT !.AnglesG = angles,
                        !.LuminousIntensityDistributionRaw =
                            [k \in 1..Len(@) |->
                                IF k <= Len(plane) THEN plane[k]
                                ELSE Reverse(plane)[((k - 1) % Len(plane)) + 1]]],
             LAMBDA e1 : CalcLuminousIntensityDistributionFromRaw(calcMc1andMc2(e1)).eul))

BeamModels ==
    {BeamShape(sm[1], sm[2], SubSeq(angles, 1, Len(plane)), plane) :
        sm \in {<<1, 1>>, <<4, 4>>, <<0, 1>>, <<2, 2>>},
        angles \in BeamAngles,
        plane \in UNION {[1..n -> BeamIntensities] : n \in 0..MaxBeamAngles}}

InitBeam ==
    /\ eorig \in BeamModels
    /\ eul = eorig
    /\ strict = FALSE
    /\ doc = <<>>
    /\ pos = 0
    /\ pc = "query"
    /\ err = ""
    /\ ies = ZeroIES
    /\ orig = NoModel
    /\ conv = NoModel

Answer(query, planeIndex, r) ==
    /\ conv' = [query |-> query, planeIndex |-> planeIndex, result |-> r.val]
    /\ err' = r.err
    /\ pc' = "answered"
    /\ UNCHANGED <<doc, strict, pos, ies, orig, eul, eorig>>

\* eul.GetFwhm(planeIndex)
CallGetFwhm ==
    /\ pc = "query"
    /\ \E planeIndex \in -2..(eul.mc + 1) : Answer("GetFwhm", planeIndex, GetFwhm(eul, planeIndex))

\* eul.GetFwtm(planeIndex)
CallGetFwtm ==
    /\ pc = "query"
    /\ \E planeIndex \in -2..(eul.mc + 1) : Answer("GetFwtm", planeIndex, GetFwtm(eul, planeIndex))

NextBeam == CallGetFwhm \/ CallGetFwtm

SpecBeam == InitBeam /\ [][NextBeam]_vars

----------------------------------------------------------------------------
(* IES models for Upgrade *)

\* largest number of keywords chosen freely, and of times the range loop of
\* Upgrade produces an entry it created itself
MaxUpgradeKeywords == 3
MaxRevisits == 1

kwCustomBLOCK == <<"_">> \o kwBLOCK
kwLong == Rep("X", 18)

UpgradePool ==
    {kwTEST, kwTESTLAB, kwISSUEDATE, kwMANUFAC, kwDATE, kwBLOCK, kwCustomBLOCK, kwLAMP, kwLong}

UpgradeKeySets ==
    {S \in SUBSET UpgradePool : Cardinality(S) <= MaxUpgradeKeywords}
    \cup {{kwTEST, kwTESTLAB, kwISSUEDATE, kwMANUFAC} \cup S :
            S \in {T \in SUBSET {kwDATE, kwBLOCK, kwCustomBLOCK, kwLong} :
                      Cardinality(T) <= MaxUpgradeKeywords - 1}}

\* every keyword holds a value of its own
UpgradeModels ==
    {[BaseModel(f, 2, 1) EXCEPT !.Keywords = [k \in S |-> <<"=">> \o k]] :
        f \in ExportFormats \cup {IESFormatLM_63_1986, ""}, S \in UpgradeKeySets}
    \cup {[BaseModel(IESFormatLM_63_1995, 2, 1) EXCEPT !.HorizontalAngles = <<>>]}

InitUpgrade ==
    /\ orig \in UpgradeModels
    /\ ies = orig
    /\ strict = FALSE
    /\ doc = <<>>
    /\ pos = 0
    /\ pc = "upgrade"
    /\ err = ""
    /\ eul = NoModel
    /\ eorig = NoModel
    /\ conv = NoModel

\* ies.Upgrade() on the model orig
CallUpgrade ==
    /\ pc = "upgrade"
    /\ \E order \in Orders(NotAllowed(upgradeHead(ies))), revisits \in 0..MaxRevisits :
          LET u == Upgrade(ies, order, revisits)
          IN /\ ies' = u.ies
             /\ err' = u.err
             /\ pc' = IF u.err # "" THEN "upgrade failed" ELSE "upgraded"
    /\ UNCHANGED <<doc, strict, pos, orig, eul, eorig, conv>>

\* ies.Upgrade() once more on the upgraded model; conv keeps the model as the
\* first call left it
CallUpgradeAgain ==
    /\ pc = "upgraded"
    /\ \E order \in Orders(NotAllowed(upgradeHead(ies))), revisits \in 0..MaxRevisits :
          LET u == Upgrade(ies, order, revisits)
          IN /\ ies' = u.ies
             /\ err' = u.err
             /\ pc' = IF u.err # "" THEN "second upgrade failed" ELSE "upgraded twice"
    /\ conv' = [first |-> ies]
    /\ UNCHANGED <<doc, strict, pos, orig, eul, eorig>>

NextUpgrade == CallUpgrade \/ CallUpgradeAgain

SpecUpgrade == InitUpgrade /\ [][NextUpgrade]_vars

\* both Export methods, each on its own models
InitExport == InitRoundTrip \/ InitEulumdat

NextExport == NextRoundTrip \/ NextEulumdat

SpecExport == InitExport /\ [][NextExport]_vars

----------------------------------------------------------------------------
(* Properties *)

\* C1: a model of a supported revision with tilt NONE or INCLUDE that passes
\* Validate is exported, and NewIES on the written lines succeeds with a model
\* equal to it in every declared field.
C1_IESRoundTrip ==
    (/\ Validate(orig).ok
     /\ orig.Format \in ExportFormats
     /\ orig.Tilt \in {IESTiltNone, IESTiltInclude}
     /\ \A k \in DOMAIN orig.Keywords : isKeywordAllowed(orig, k)) =>
        /\ pc # "export failed"
        /\ pc # "failed"
        /\ pc = "done" => Declared(ies) = Declared(orig)

\* the line at which the keyword loop of NewIES ends: the first line after the
\* format identifier that is a TILT line and no keyword line (0: none)
TiltLineIndex(d) ==
    LET T == {k \in 2..Len(d) : ~isKeywordLine(d[k]) /\ isTiltLine(d[k])}
    IN IF T = {} THEN 0 ELSE CHOOSE k \in T : \A k2 \in T : k <= k2

IsMoreLine(line) == isKeywordLine(line) /\ keywordOfLine(line) = kwMORE

\* C6: a [MORE] line met after keyword K was recorded with value V sets K's value
\* to V + newline + T and changes nothing else of the keyword map: the keys are
\* the same, the last-seen keyword stays K; no key MORE ever exists; a [MORE]
\* line met before any keyword makes the parse fail.
C6_MoreContinuation ==
    /\ [](kwMORE \notin DOMAIN ies.Keywords)
    /\ [][(pc = "keywords" /\ IsMoreLine(doc[pos])) =>
            IF ies.lastKeyword = <<>>
            THEN pc' = "failed" /\ err' = "MORE before any keyword"
                 /\ ies'.Keywords = ies.Keywords
            ELSE /\ ies.lastKeyword \in DOMAIN ies.Keywords
                 /\ DOMAIN ies'.Keywords = DOMAIN ies.Keywords
                 /\ ies'.Keywords =
                        [ies.Keywords EXCEPT ![ies.lastKeyword] =
                            @ \o <<NL>> \o valueOfLine(doc[pos])]
                 /\ ies'.lastKeyword = ies.lastKeyword]_vars

\* a [MORE] line right after "[TEST] abc" has been read: TEST is the only keyword
C6_Witness ==
    /\ pc = "keywords"
    /\ pos = 4
    /\ doc[2] = KwLine(kwTEST, <<"a","b","c">>)
    /\ IsMoreLine(doc[3])
    /\ ies.Keywords = [k \in {kwTEST} |-> <<"a","b","c">> \o <<NL>> \o valueOfLine(doc[3])]
    /\ ies.lastKeyword = kwTEST

\* C8: a parse succeeds only if the value on the TILT line is exactly INCLUDE or
\* NONE, the model's tilt being that value and never FILE; with any other value
\* the step that interprets the TILT line fails as unsupported.
C8_TiltIncludeOrNone ==
    /\ [](pc = "done" =>
            /\ ies.Tilt \in {IESTiltInclude, IESTiltNone}
            /\ TiltLineIndex(doc) # 0
            /\ tiltValueOfLine(doc[TiltLineIndex(doc)]) =
                   (IF ies.Tilt = IESTiltInclude THEN txtINCLUDE ELSE txtNONE))
    /\ [](ies.Tilt = IESTiltFile => pc = "failed" /\ err = "TILT from file not supported")
    /\ [][(/\ pc = "keywords"
           /\ pos = TiltLineIndex(doc)
           /\ ContainsRequiredKeywords(ies)
           /\ tiltValueOfLine(doc[pos]) \notin {txtINCLUDE, txtNONE}) =>
              (pc' = "failed" /\ err' = "TILT from file not supported")]_vars

\* the TILT line names a file and the parse has failed on it
C8_Witness ==
    /\ pc = "failed"
    /\ err = "TILT from file not supported"
    /\ pos = TiltLineIndex(doc)
    /\ tiltValueOfLine(doc[pos]) = <<"f",".","t","x","t">>

Final == pc \in {"done", "failed"}

\* the revision the first line of d identifies
RevisionOf(d) ==
    IF Len(d) = 0 THEN IESFormatUnknown ELSE parseFormatVersion(TrimSpace(d[1])).Format

\* the indices of the keyword lines of d's keyword section
KeywordLineIndices(d) ==
    LET t == TiltLineIndex(d)
    IN {k \in 2..Len(d) : (t = 0 \/ k < t) /\ isKeywordLine(d[k])}

HasKeywordLine(d, keyword) ==
    \E k \in KeywordLineIndices(d) : keywordOfLine(d[k]) = keyword

\* the keyword lines of d one character over the keyword-line budget of its revision
OverBudgetLines(d) ==
    {k \in KeywordLineIndices(d) :
        Len(d[k]) = maxKeywordLineLength([Format |-> RevisionOf(d)]) + 1}

\* d with the last character of each of those lines removed
WithinBudget(d) ==
    [k \in 1..Len(d) |-> IF k \in OverBudgetLines(d)
                         THEN SubSeq(d[k], 1, Len(d[k]) - 1) ELSE d[k]]

\* C4: a document of a supported revision that is valid but for a keyword line
\* one character over the revision's keyword-line budget parses with
\* strict = false and fails with a length violation with strict = true.
C4_LengthBudget ==
    (/\ Final
     /\ RevisionOf(doc) # IESFormatUnknown
     /\ OverBudgetLines(doc) # {}
     /\ NewIES(WithinBudget(doc), TRUE).err = "") =>
        IF strict
        THEN pc = "failed" /\ err = "line exceeds maximum allowed length"
        ELSE pc = "done"

\* d under another format identifier
WithId(d, id) == <<id>> \o Tail(d)

\* d with the required keyword lines of 2002 put in front of its TILT line
WithRequired2002(d) ==
    SubSeq(d, 1, TiltLineIndex(d) - 1) \o RequiredLines(idLM63_2002)
        \o SubSeq(d, TiltLineIndex(d), Len(d))

\* a 2002 document whose only defect is that it has no TESTLAB line
LacksOnlyRequired(d, str) ==
    /\ Len(d) >= 1 /\ d[1] = idLM63_2002
    /\ TiltLineIndex(d) # 0
    /\ ~HasKeywordLine(d, kwTESTLAB)
    /\ NewIES(WithRequired2002(d), str).err = ""

\* 2002 without TESTLAB: the parse fails, and no tilt value is ever taken
FailsBeforeTilt ==
    (ies.Format = IESFormatLM_63_2002 /\ ~HasKeywordLine(doc, kwTESTLAB)) =>
        /\ ies.Tilt = ""
        /\ pc \in {"keywords", "failed"}
        /\ (pc = "failed" /\ pos = TiltLineIndex(doc) /\ pos # 0
               => err = "required keywords are missing")
        /\ (pc = "keywords" /\ pos = TiltLineIndex(doc)
               => keywordLoopStep(ies, doc, pos).err = "required keywords are missing")

\* C5 as stated: without TESTLAB a 2002 document fails before the TILT line is
\* interpreted, and the same lines under the 1995 identifier parse.
C5_RevisionGatingAsStated ==
    /\ FailsBeforeTilt
    /\ (Final /\ LacksOnlyRequired(doc, strict)) =>
          NewIES(WithId(doc, idLM63_1995), strict).err = ""

\* every keyword of d is on the allow-list of 1995
KeywordsAllowed1995(d) ==
    \A k \in KeywordLineIndices(d) :
        isKeywordAllowed([Format |-> IESFormatLM_63_1995], keywordOfLine(d[k]))

\* no line of d after the first is over the line budget of 1995
WithinBudget1995(d) ==
    \A k \in 2..Len(d) : Len(d[k]) <= maxDataLineLength([Format |-> IESFormatLM_63_1995])

\* C5: without TESTLAB a 2002 document fails before the TILT line is
\* interpreted; the same lines under the 1995 identifier parse if every keyword
\* in them is on the 1995 allow-list and, with strict parsing, no line is over
\* the 1995 line budget.
C5_RevisionGating ==
    /\ FailsBeforeTilt
    /\ (/\ Final
        /\ LacksOnlyRequired(doc, strict)
        /\ KeywordsAllowed1995(doc)
        /\ (strict => WithinBudget1995(doc))) =>
          NewIES(WithId(doc, idLM63_1995), strict).err = ""

\* a 2002 document with TEST and MANUFAC only has failed at its TILT line, and
\* its lines parse under the 1995 identifier
C5_Witness ==
    /\ pc = "failed"
    /\ err = "required keywords are missing"
    /\ ies.Format = IESFormatLM_63_2002
    /\ pos = TiltLineIndex(doc)
    /\ ies.Tilt = ""
    /\ DOMAIN ies.Keywords = {kwTEST, kwMANUFAC}
    /\ LacksOnlyRequired(doc, strict)
    /\ NewIES(WithId(doc, idLM63_1995), strict).err = ""

IsBlockLine(line) == isKeywordLine(line) /\ keywordOfLine(line) \in {kwBLOCK, kwENDBLOCK}

\* the BLOCK / ENDBLOCK keywords of d's keyword section, in file order
BlockKeywords(d) ==
    LET RECURSIVE B(_)
        B(k) == IF k > Len(d) THEN <<>>
                ELSE IF k \in KeywordLineIndices(d) /\ IsBlockLine(d[k])
                THEN <<keywordOfLine(d[k])>> \o B(k + 1)
                ELSE B(k + 1)
    IN B(2)

\* at least one BLOCK ... ENDBLOCK pair, every BLOCK closed before the next opens
BlocksMatched(d) ==
    LET b == BlockKeywords(d)
    IN /\ Len(b) >= 2 /\ Len(b) % 2 = 0
       /\ \A k \in 1..Len(b) : b[k] = IF k % 2 = 1 THEN kwBLOCK ELSE kwENDBLOCK

\* d without its BLOCK and ENDBLOCK lines
WithoutBlockLines(d) ==
    LET NotBlock(l) == ~IsBlockLine(l) IN SelectSeq(d, NotBlock)

\* the step on a keyword line ENDBLOCK outside a block, or BLOCK inside one
Misnested ==
    /\ pc = "keywords"
    /\ isKeywordLine(doc[pos])
    /\ \/ keywordOfLine(doc[pos]) = kwENDBLOCK /\ ~ies.insideBlock
       \/ keywordOfLine(doc[pos]) = kwBLOCK /\ ies.insideBlock

\* a keyword line met inside a block is handled as it is outside a block
RecordedAsOutside ==
    (pc = "keywords" /\ isKeywordLine(doc[pos]) /\ ~IsBlockLine(doc[pos]) /\ ies.insideBlock) =>
        LET out == keywordLoopStep([ies EXCEPT !.insideBlock = FALSE], doc, pos)
        IN /\ ies'.Keywords = out.ies.Keywords
           /\ ies'.lastKeyword = out.ies.lastKeyword
           /\ err' = out.err
           /\ ies'.insideBlock

ParseAgrees ==
    pc \in {"done", "failed"} =>
        LET r == NewIES(doc, strict) IN r.err = err /\ r.ies = ies /\ r.pos = pos


\* the declared fields of the Eulumdat type (mc1, mc2 and mc are internal)
DeclaredEul(e) == [f \in DOMAIN e \ {"mc1", "mc2", "mc"} |-> e[f]]

\* the string fields of a model, each with the length limit NewEulumdat reads it with
EulStrings(e) ==
    {<<e.CompanyIdentification, 78>>, <<e.MeasurementReportNumber, 78>>,
     <<e.LuminaireName, 78>>, <<e.LuminaireNumber, 78>>, <<e.FileName, 8>>,
     <<e.DateUser, 78>>}
    \cup {<<e.TypeLamps[k], 24>> : k \in 1..Len(e.TypeLamps)}
    \cup {<<e.ColorTemperature[k], 16>> : k \in 1..Len(e.ColorTemperature)}
    \cup {<<e.ColorRenderingIndexCRI[k], 6>> : k \in 1..Len(e.ColorRenderingIndexCRI)}

TrimmedSingleLine(str) == TrimSpace(str) = str /\ \A k \in 1..Len(str) : str[k] # NL

\* the model the round trip is claimed for
ValidEulumdat(e) ==
    /\ EulumdatValidate(e).ok
    /\ e.SymmetryIndicator \in 0..4
    /\ \A sl \in EulStrings(e) : TrimmedSingleLine(sl[1])

WithinLimits(e) == \A sl \in EulStrings(e) : Len(sl[1]) <= sl[2]

\* LuminousIntensityDistribution is the split of the raw run into planes
Reshaped(e) ==
    /\ CalcLuminousIntensityDistributionFromRaw(e).err = ""
    /\ CalcLuminousIntensityDistributionFromRaw(e).eul.LuminousIntensityDistribution
          = e.LuminousIntensityDistribution

EulumdatRoundTrip ==
    /\ pc # "export failed"
    /\ pc # "failed"
    /\ pc \in {"parsed", "converted"} => DeclaredEul(eul) = DeclaredEul(eorig)

\* C2 as stated: every model that passes Validate, with a symmetry indicator in
\* 0..4 and trimmed single-line strings, is exported, and NewEulumdat on the
\* written lines succeeds with a model equal to it in every declared field.
C2_EulumdatRoundTripAsStated == ValidEulumdat(eorig) => EulumdatRoundTrip

\* C2: the round trip of C2 holds for the models whose
\* LuminousIntensityDistribution is the split of their raw run and, when the
\* lines are read strictly, whose strings are within the limits of their fields.
C2_EulumdatRoundTrip ==
    (/\ ValidEulumdat(eorig)
     /\ Reshaped(eorig)
     /\ strict => WithinLimits(eorig)) => EulumdatRoundTrip

\* a model with a file name over its limit has come back from a lenient read
C2_Witness ==
    /\ pc = "parsed"
    /\ ~strict
    /\ ValidEulumdat(eorig) /\ Reshaped(eorig)
    /\ Len(eorig.FileName) > 8
    /\ eorig.NumberStandardSetLamps > 0
    /\ DeclaredEul(eul) = DeclaredEul(eorig)

\* C3: ConvertIESToEulumdat returns an error for every IES model.
C3_NotSupported == pc = "converted" => conv.err # ""

\* C9: in a parsed model with a symmetry indicator in 0..4 and a positive number
\* of C-planes, mc2 >= mc1 and mc2 - mc1 + 1 = mc (Mc/2 + 1 for indicator 3),
\* the raw run has mc * Ng entries, and plane i of the mc planes is the raw
\* entries i*Ng .. i*Ng+Ng-1 in order.
C9_SymmetryReshape ==
    (/\ pc \in {"parsed", "converted"}
     /\ eul.SymmetryIndicator \in 0..4
     /\ eul.NumberMcCPlanes > 0) =>
        LET Ng == eul.NumberNgIntensitiesCPlane
            raw == eul.LuminousIntensityDistributionRaw
            planes == eul.LuminousIntensityDistribution
        IN /\ eul.mc2 >= eul.mc1
           /\ eul.mc2 - eul.mc1 + 1 = eul.mc
           /\ eul.SymmetryIndicator = 3 => eul.mc = Quot(eul.NumberMcCPlanes, 2) + 1
           /\ Len(raw) = eul.mc * Ng
           /\ Len(planes) = eul.mc
           /\ \A i \in 0..(eul.mc - 1) :
                /\ Len(planes[i + 1]) = Ng
                /\ \A j \in 0..(Ng - 1) : planes[i + 1][j + 1] = raw[i * Ng + j + 1]

\* a model of indicator 3 with 7 C-planes is parsed into 4 planes of 2 values
C9_Witness ==
    /\ pc = "parsed"
    /\ eul.SymmetryIndicator = 3
    /\ eul.NumberMcCPlanes = 7
    /\ eul.NumberNgIntensitiesCPlane = 2
    /\ eul.mc = 4
    /\ Len(eul.LuminousIntensityDistributionRaw) = 8

\* C10: for a parsed model with symmetry indicator 1 and N intensities per
\* plane, mc1 = mc2 = mc = 1, the raw run has N entries, and
\* ConvertEulumdatToIES returns a model with N vertical angles, declared as N,
\* and a candela grid of one row of N values.
C10_RotationalConversion ==
    (pc = "converted" /\ eul.SymmetryIndicator = 1) =>
        LET Ng == eul.NumberNgIntensitiesCPlane
        IN /\ eul.mc1 = 1 /\ eul.mc2 = 1 /\ eul.mc = 1
           /\ Len(eul.LuminousIntensityDistributionRaw) = Ng
           /\ conv.err = ""
           /\ Len(conv.result.VerticalAngles) = Ng
           /\ conv.result.NumberVerticalAngles = Ng
           /\ Len(conv.result.CandelaValues) = 1
           /\ Len(conv.result.CandelaValues[1]) = Ng

\* the model handed to Export fails its Validate, and the message of Validate
InvalidModel ==
    IF orig # NoModel THEN ~Validate(orig).ok ELSE ~EulumdatValidate(eorig).ok

ValidationMessage ==
    IF orig # NoModel THEN Validate(orig).msg ELSE EulumdatValidate(eorig).msg

\* C11: Export of a model that fails Validate (IES.Export and Eulumdat.Export
\* alike) returns the message of Validate and leaves the sink as it was:
\* nothing is created and no line is written.
C11_InvalidExportWritesNothing ==
    [][(pc = "export" /\ pc' # "converted" /\ InvalidModel)
          => (doc' = doc /\ doc' = <<>> /\ pc' = "export failed" /\ err' = ValidationMessage)]_vars

\* an IES model whose declared count of vertical angles differs from the array
\* has been refused by Export
C11_Witness ==
    /\ pc = "export failed"
    /\ orig # NoModel
    /\ orig.NumberVerticalAngles # Len(orig.VerticalAngles)
    /\ err = "VerticalAngles length mismatch"
    /\ doc = <<>>

\* keyword k is permitted under the 2002 revision
Permitted02(k) == isKeywordAllowed([ZeroIES EXCEPT !.Format = IESFormatLM_63_2002], k)

Required02 == {kwTEST, kwTESTLAB, kwISSUEDATE, kwMANUFAC}

\* the postcondition of Upgrade on the keywords: before `b`, after `a`
UpgradePost(b, a) ==
    /\ a.Format = IESFormatLM_63_2002
    /\ \A k \in Required02 :
          /\ k \in DOMAIN a.Keywords
          /\ (k \notin DOMAIN b.Keywords /\ ~(k = kwISSUEDATE /\ kwDATE \in DOMAIN b.Keywords))
                => a.Keywords[k] = txtUnknown
    /\ \A k \in DOMAIN b.Keywords :
          IF Permitted02(k) THEN MapGet(a.Keywords, k) = b.Keywords[k] /\ k \in DOMAIN a.Keywords
          ELSE /\ k \notin DOMAIN a.Keywords
               /\ IF k = kwDATE THEN MapGet(a.Keywords, kwISSUEDATE) = b.Keywords[k]
                  ELSE /\ (<<"_">> \o k) \in DOMAIN a.Keywords
                       /\ a.Keywords[<<"_">> \o k] = b.Keywords[k]
    /\ \A k \in DOMAIN a.Keywords : Permitted02(k)

NoUpgradeCollision(b) ==
    /\ ~(kwDATE \in DOMAIN b.Keywords /\ kwISSUEDATE \in DOMAIN b.Keywords)
    /\ \A k \in DOMAIN b.Keywords :
          ~Permitted02(k) => /\ (<<"_">> \o k) \notin DOMAIN b.Keywords
                             /\ Len(k) < 18

LengthChecks(e) ==
    <<<<"NumberLamps", e.NumberStandardSetLamps, Len(e.NumberLamps)>>,
      <<"TypeLamps", e.NumberStandardSetLamps, Len(e.TypeLamps)>>,
      <<"TotalLuminousFluxLamps", e.NumberStandardSetLamps, Len(e.TotalLuminousFluxLamps)>>,
      <<"ColorTemperature", e.NumberStandardSetLamps, Len(e.ColorTemperature)>>,
      <<"ColorRenderingIndexCRI", e.NumberStandardSetLamps, Len(e.ColorRenderingIndexCRI)>>,
      <<"BallastWatts", e.NumberStandardSetLamps, Len(e.BallastWatts)>>,
      <<"AnglesC", e.NumberMcCPlanes, Len(e.AnglesC)>>,
      <<"AnglesG", e.NumberNgIntensitiesCPlane, Len(e.AnglesG)>>,
      <<"LuminousIntensityDistributionRaw",
        (calcMc1andMc2(e).mc2 - calcMc1andMc2(e).mc1 + 1) * e.NumberNgIntensitiesCPlane,
        Len(e.LuminousIntensityDistributionRaw)>>>>

Mismatches(e) == {k \in 1..Len(LengthChecks(e)) : LengthChecks(e)[k][2] # LengthChecks(e)[k][3]}

FirstMismatch(e) == CHOOSE k \in Mismatches(e) : \A j \in Mismatches(e) : k <= j

\* "<array> length mismatch"
MismatchMessage(name) ==
    IF name = "NumberLamps" THEN "NumberLamps length mismatch"
    ELSE IF name = "TypeLamps" THEN "TypeLamps length mismatch"
    ELSE IF name = "TotalLuminousFluxLamps" THEN "TotalLuminousFluxLamps length mismatch"
    ELSE IF name = "ColorTemperature" THEN "ColorTemperature length mismatch"
    ELSE IF name = "ColorRenderingIndexCRI" THEN "ColorRenderingIndexCRI length mismatch"
    ELSE IF name = "BallastWatts" THEN "BallastWatts length mismatch"
    ELSE IF name = "AnglesC" THEN "AnglesC length mismatch"
    ELSE IF name = "AnglesG" THEN "AnglesG length mismatch"
    ELSE "LuminousIntensityDistributionRaw length mismatch"

\* C13: the Validate that Eulumdat.Export runs first succeeds exactly when
\* the six lamp arrays have the length of the set count, AnglesC has length
\* Mc, AnglesG has length Ng and the raw run has length (mc2 - mc1 + 1) * Ng
\* with mc1 and mc2 derived again from the symmetry indicator; otherwise its
\* message names the first array, in the order of the checks, that disagrees.
C13_EulumdatValidate ==
    (pc # "export" /\ eorig # NoModel) =>
        IF Mismatches(eorig) = {}
        THEN pc # "export failed" /\ EulumdatValidate(eorig) = [ok |-> TRUE, msg |-> ""]
        ELSE /\ pc = "export failed"
             /\ err = MismatchMessage(LengthChecks(eorig)[FirstMismatch(eorig)][1])

\* a model whose AnglesC and AnglesG are both too short has been refused with
\* the message for AnglesC, the earlier of the two checks
C13_Witness ==
    /\ pc = "export failed"
    /\ eorig # NoModel
    /\ {7, 8} \subseteq Mismatches(eorig)
    /\ err = "AnglesC length mismatch"

\* the planes of the model are numbered 0 .. mc - 1
ExistingPlane(e, p) == 0 <= p /\ p < e.mc /\ p + 1 \in DOMAIN e.LuminousIntensityDistribution

\* the largest intensity of the plane, times 1 (hundredths)
PlaneMax(plane) == CHOOSE m \in {plane[k] : k \in DOMAIN plane} : \A k \in DOMAIN plane : plane[k] <= m

\* the indices of the G-angles of at most 90 degrees
Candidates(e, plane) == {k \in DOMAIN plane : k \in DOMAIN e.AnglesG /\ e.AnglesG[k] <= 9000}

\* the first index among the candidates whose intensity is closest to
\* max / divisor
ClosestIndex(e, plane, divisor) ==
    CHOOSE k \in Candidates(e, plane) :
        \A j \in Candidates(e, plane) :
            \/ Abs(divisor * plane[k] - PlaneMax(plane)) < Abs(divisor * plane[j] - PlaneMax(plane))
            \/ Abs(divisor * plane[k] - PlaneMax(plane)) = Abs(divisor * plane[j] - PlaneMax(plane))
                  /\ k <= j

\* what the claim gives for the query in conv: twice the closest G-angle for
\* indicator 1 or 4 and an existing plane (no statement when the plane has no
\* G-angle of at most 90 degrees), the sentinel otherwise
WidthAsClaimed(e, q) ==
    LET divisor == IF q.query = "GetFwhm" THEN 2 ELSE 10
    IN IF e.SymmetryIndicator \in {1, 4} /\ ExistingPlane(e, q.planeIndex)
       THEN LET plane == e.LuminousIntensityDistribution[q.planeIndex + 1]
            IN Candidates(e, plane) # {}
                  => (err = "" /\ q.result = 2 * e.AnglesG[ClosestIndex(e, plane, divisor)])
       ELSE err = "" /\ q.result = NoAngle

\* C14: GetFwhm(p) and GetFwtm(p) return twice the G-angle, among those of
\* at most 90 degrees, whose intensity in plane p is closest to max / 2
\* (max / 10), the first of them when several are equally close, for
\* indicator 1 or 4 and an existing plane p; for every other indicator and
\* for every plane index that denotes no plane they return -1.
C14_BeamWidth ==
    pc = "answered" => WidthAsClaimed(eul, conv)

\* C15: ConvertEulumdatToIES leaves every field of its argument as NewEulumdat
\* built it, and so does every later assignment to an element of the
\* VerticalAngles or the CandelaValues of the returned model.
C15_ConverterSharesNothing ==
    pc \in {"converted", "modified"} => eul = NewEulumdat(doc, strict).eul

\* C16: once the TILT line has been accepted no block is open: a parse that
\* is past its keyword section without having failed has the inside-block
\* flag false, so an unclosed BLOCK makes NewIES fail at the TILT line.
C16_BlocksClosedAtTilt ==
    pc \notin {"format", "keywords", "failed"} => ~ies.insideBlock

\* the keywords a revision requires
RequiredFor(f) ==
    IF f = IESFormatLM_63_1991 THEN {kwTEST, kwMANUFAC}
    ELSE IF f = IESFormatLM_63_2002 THEN {kwTEST, kwTESTLAB, kwISSUEDATE, kwMANUFAC}
    ELSE {}

\* the keyword loop is on the TILT line
AtTiltLine == pc = "keywords" /\ ~isKeywordLine(doc[pos]) /\ isTiltLine(doc[pos])

\* the tilt field for a tilt value
TiltOf(value) ==
    IF value = txtINCLUDE THEN IESTiltInclude
    ELSE IF value = txtNONE THEN IESTiltNone
    ELSE IESTiltFile

\* C17: on the TILT line, a required keyword of the revision (1991: TEST and
\* MANUFAC; 1995: none; 2002: TEST, TESTLAB, ISSUEDATE, MANUFAC) that is not
\* recorded makes NewIES fail with the missing-keyword error, the model as it
\* was and its tilt field unset, and the same for every other tilt value in
\* place of the one on the line; with all of them recorded the step takes the
\* tilt value of the line. A parse that failed for a missing keyword never
\* has a tilt field.
C17_RequiredBeforeTilt ==
    /\ [][AtTiltLine =>
            IF RequiredFor(ies.Format) \subseteq DOMAIN ies.Keywords
            THEN /\ ies'.Tilt = TiltOf(tiltValueOfLine(doc[pos]))
                 /\ err' # "required keywords are missing"
            ELSE /\ pc' = "failed"
                 /\ err' = "required keywords are missing"
                 /\ ies' = ies /\ ies'.Tilt = ""
                 /\ \A t \in TiltLines :
                       LET r == keywordLoopStep(ies, [doc EXCEPT ![pos] = t], pos)
                       IN r.err = "required keywords are missing" /\ r.ies = ies]_vars
    /\ []((pc = "failed" /\ err = "required keywords are missing") => ies.Tilt = "")

\* a 1991 document without MANUFAC has failed on its TILT=INCLUDE line
C17_Witness ==
    /\ pc = "failed"
    /\ err = "required keywords are missing"
    /\ ies.Format = IESFormatLM_63_1991
    /\ kwMANUFAC \notin DOMAIN ies.Keywords
    /\ tiltValueOfLine(doc[pos]) = txtINCLUDE
    /\ ies.Tilt = ""

\* the whitespace-delimited tokens of d from line k on, in document order
TokensFrom(d, k) == OnePerLine(SubSeq(d, k, Len(d)))

\* C18: a successful parse of a TILT=INCLUDE document has the value of the
\* line after the TILT line as geometry code, the value N of the next line as
\* pair count, the N tokens that follow as tiltAngles, the N tokens after
\* them as tiltMultiplierFactors, and the ten header fields from the ten
\* tokens after the multipliers.
C18_TiltIncludeBlock ==
    (pc = "done" /\ ies.Tilt = IESTiltInclude) =>
        LET t == TiltLineIndex(doc)
            n == getIntFromLine(doc[t + 2]).v
            toks == TokensFrom(doc, t + 3)
            h == SubSeq(toks, 2 * n + 1, 2 * n + 10)
        IN /\ ies.TiltLampToLuminaireGeometry = getIntFromLine(doc[t + 1]).v
           /\ ies.TiltAnglesAndFactors = n
           /\ Len(toks) >= 2 * n + 10
           /\ ies.TiltAngles = convertStringSliceToFloat(SubSeq(toks, 1, n)).list
           /\ ies.TiltMultiplierFactors = convertStringSliceToFloat(SubSeq(toks, n + 1, 2 * n)).list
           /\ ies.NumberLamps = Atoi(h[1]).v
           /\ ies.LumensPerLamp = ParseFloat(h[2]).v
           /\ ies.CandelaMultiplier = ParseFloat(h[3]).v
           /\ ies.NumberVerticalAngles = Atoi(h[4]).v
           /\ ies.NumberHorizontalAngles = Atoi(h[5]).v
           /\ ies.PhotometricType = Atoi(h[6]).v
           /\ ies.UnitsType = Atoi(h[7]).v
           /\ ies.LuminaireWidth = ParseFloat(h[8]).v
           /\ ies.LuminaireLength = ParseFloat(h[9]).v
           /\ ies.LuminaireHeight = ParseFloat(h[10]).v

\* the stages of NewIES that read one run of values, the length of the run
\* and the last-run flag of the call
RunStage == pc \in {"line10", "line11", "vertical", "horizontal", "candela"}

RunSize ==
    IF pc = "line10" THEN 10
    ELSE IF pc = "line11" THEN 3
    ELSE IF pc = "vertical" THEN ies.NumberVerticalAngles
    ELSE IF pc = "horizontal" THEN ies.NumberHorizontalAngles
    ELSE ies.NumberVerticalAngles * ies.NumberHorizontalAngles

RunIsLast == pc = "candela"

\* the lines q >= p up to which d holds at least n tokens from line p on
RunEnds(d, p, n) == {q \in p..Len(d) : Len(TokensFrom(SubSeq(d, 1, q), p)) >= n}

\* the result r for a run of n tokens from line p on, as the rule gives it:
\* unexpected end of input when the lines from p on hold fewer than n tokens;
\* when the n-th token ends a line q, the first n tokens, and the scanner on
\* line q for the last run, on line q + 1 otherwise (unexpected end of input
\* if q is the last line)
RunAsCollected(r, d, p, n, last) ==
    IF RunEnds(d, p, n) = {} THEN r.err = "unexpected EOF"
    ELSE LET q == CHOOSE x \in RunEnds(d, p, n) : \A y \in RunEnds(d, p, n) : x <= y
             toks == TokensFrom(SubSeq(d, 1, q), p)
         IN Len(toks) = n =>
               IF last THEN r.err = "" /\ r.list = toks /\ r.pos = q
               ELSE IF q < Len(d) THEN r.err = "" /\ r.list = toks /\ r.pos = q + 1
               ELSE r.err = "unexpected EOF"

\* C19: every stage of NewIES that reads a run of N >= 1 values gets from
\* getWordListFromInput the next N tokens in document order, however they
\* are split over lines and with blank lines giving no token, provided the
\* N-th token ends a line; one further line is then read unless the run is
\* the last one, and the call fails with unexpected end of input when that
\* line or a token is missing. The stage goes on from the line the call
\* stopped at and returns the error of the call.
C19_WordCollection ==
    [][(RunStage /\ RunSize >= 1) =>
          LET r == getWordListFromInput(doc, pos, RunSize, RunIsLast)
          IN /\ RunAsCollected(r, doc, pos, RunSize, RunIsLast)
             /\ pos' = r.pos
             /\ r.err # "" => (pc' = "failed" /\ err' = r.err)
             /\ (pc = "vertical" /\ pc' = "horizontal")
                   => ies'.VerticalAngles = convertStringSliceToFloat(r.list).list]_vars

\* a document whose header run is split over lines with a blank line in
\* between, and whose angles stand one per line, has been read to the end
C19_Witness ==
    /\ pc = "done"
    /\ \E k \in 1..Len(doc) : doc[k] = <<>>
    /\ ies.VerticalAngles = <<0, 9000>>
    /\ ies.CandelaValues = <<<<1000, 2000>>>>
    /\ pos = Len(doc)

\* the three tokens of the ballast / watts line of d: those after the ten
\* header tokens, which follow the TILT line or, for TILT=INCLUDE, the n
\* angles and n multipliers after the pair-count line
Line11Tokens(d, i) ==
    LET t == TiltLineIndex(d)
        toks == IF i.Tilt = IESTiltInclude
                THEN TokensFrom(d, t + 3) ELSE TokensFrom(d, t + 1)
        skip == IF i.Tilt = IESTiltInclude THEN 2 * i.TiltAnglesAndFactors ELSE 0
    IN SubSeq(toks, skip + 11, skip + 13)

\* C20: after a successful NewIES, BallastFactor is the first token of the
\* ballast / watts line, FutureUse the second and InputWatts the third.
C20_Line11Layout ==
    pc = "done" =>
        LET w == Line11Tokens(doc, ies)
        IN /\ Len(w) = 3
           /\ ies.BallastFactor = ParseFloat(w[1]).v
           /\ ies.FutureUse = ParseFloat(w[2]).v
           /\ ies.InputWatts = ParseFloat(w[3]).v

\* a declared count of the model differs from the length of its sequence
CountMismatch(i) ==
    \/ i.NumberVerticalAngles # Len(i.VerticalAngles)
    \/ i.NumberHorizontalAngles # Len(i.HorizontalAngles)
    \/ i.NumberHorizontalAngles # Len(i.CandelaValues)
    \/ \E r \in DOMAIN i.CandelaValues : i.NumberVerticalAngles # Len(i.CandelaValues[r])
    \/ /\ i.Tilt = IESTiltInclude
       /\ \/ i.TiltAnglesAndFactors # Len(i.TiltAngles)
          \/ i.TiltAnglesAndFactors # Len(i.TiltMultiplierFactors)

\* C21: a model in which a declared count differs from the length of its
\* sequence (vertical angles, horizontal angles, candela rows, the entries of
\* a candela row, and for TILT=INCLUDE the tilt angles and multipliers) is
\* rejected by Validate, so that Export writes nothing for it.
C21_ValidateCoversCounts ==
    (pc \notin {"export", "converted"} /\ orig # NoModel /\ CountMismatch(orig))
        => (~Validate(orig).ok /\ pc = "export failed" /\ doc = <<>>)

----------------------------------------------------------------------------
(* the packing of numeric runs on its own *)

MaxRun == 60
MaxNumberLen == 10

\* the numbers of a run, in hundredths; the longest prints as MaxNumberLen characters
PackNumbers == <<0, 150, -100, 9000, 123456, 100000000>>

\* runs of n numbers taken from PackNumbers in steps
PackRuns ==
    {[k \in 1..n |-> PackNumbers[((off + k * step) % Len(PackNumbers)) + 1]] :
        n \in 0..MaxRun, off \in 0..2, step \in {1, 5}}

\* the data-line budget of every revision, and a line that the longest number
\* of PackNumbers just fits
PackLineLengths ==
    {maxDataLineLength([Format |-> f]) : f \in ExportFormats \cup {IESFormatLM_63_1986}}
        \cup {MaxNumberLen + 1}

InitPack ==
    /\ conv \in [fn : {"floats", "values"}, lineLength : PackLineLengths, input : PackRuns]
    /\ pc = "pack"
    /\ doc = <<>>
    /\ strict = FALSE
    /\ pos = 0
    /\ err = ""
    /\ ies = ZeroIES
    /\ orig = NoModel
    /\ eul = NoModel
    /\ eorig = NoModel

\* convertFloatSliceToStringSlice(lineLength, input...)
CallConvertFloatSlice ==
    /\ pc = "pack"
    /\ conv.fn = "floats"
    /\ doc' = convertFloatSliceToStringSlice(conv.lineLength, conv.input)
    /\ pc' = "packed"
    /\ UNCHANGED <<strict, pos, err, ies, orig, eul, eorig, conv>>

\* convertValuesToStringSlice(lineLength, input...)
CallConvertValues ==
    /\ pc = "pack"
    /\ conv.fn = "values"
    /\ doc' = convertValuesToStringSlice(conv.lineLength,
                  [k \in 1..Len(conv.input) |-> SprintFloat(conv.input[k])])
    /\ pc' = "packed"
    /\ UNCHANGED <<strict, pos, err, ies, orig, eul, eorig, conv>>

NextPack == CallConvertFloatSlice \/ CallConvertValues

SpecPack == InitPack /\ [][NextPack]_vars

----------------------------------------------------------------------------
(* both parsers, each on its own documents *)

InitCodecs == InitParse \/ InitEulumdat

NextCodecs == ParseNext \/ NextEulumdat

SpecCodecs == InitCodecs /\ [][NextCodecs]_vars

\* keyword K belongs to the allow-list of revision f
InAllowList(f, K) ==
    IF f = IESFormatLM_63_1991 THEN keywordAllowedByIesna91(K)
    ELSE IF f = IESFormatLM_63_1995 THEN keywordAllowedByIesna95(K)
    ELSE IF f = IESFormatLM_63_2002 THEN keywordAllowedByIesna02(K)
    ELSE TRUE

\* K is non-empty, of at most 18 characters, and begins with an underscore or
\* is in the allow-list of f
Admitted(f, K) ==
    /\ K # <<>>
    /\ Len(K) <= 18
    /\ (K[1] = "_" \/ InAllowList(f, K))

\* C22: on a keyword line with keyword K under the detected revision, the
\* line is refused as not allowed exactly when K is empty, longer than 18
\* characters, or neither underscore-prefixed nor in the allow-list of the
\* revision; a refused keyword ends the parse with the keyword map as it was.
C22_KeywordAdmission ==
    [][(pc = "keywords" /\ isKeywordLine(doc[pos])) =>
          IF Admitted(ies.Format, keywordOfLine(doc[pos]))
          THEN err' # "keyword not allowed"
          ELSE /\ pc' = "failed"
               /\ err' = "keyword not allowed"
               /\ ies'.Keywords = ies.Keywords]_vars

\* an underscore-prefixed keyword that no allow-list holds has been recorded
\* under revision 1991
C22_Witness ==
    /\ pc = "done"
    /\ ies.Format = IESFormatLM_63_1991
    /\ <<"_","U","S","E","R">> \in DOMAIN ies.Keywords

\* the numbers of the run as the called function prints them
Printed ==
    [k \in 1..Len(conv.input) |->
        IF conv.fn = "floats" THEN FormatFloat2(conv.input[k]) ELSE SprintFloat(conv.input[k])]

\* the tokens of the lines from line j on, read in order
RECURSIVE TokensOfLines(_,_)
TokensOfLines(lines, j) ==
    IF j > Len(lines) THEN <<>> ELSE Words(lines[j]) \o TokensOfLines(lines, j + 1)

\* C23: for a run of numbers each shorter than the line budget L, every
\* produced line has at most L characters, the tokens of the lines read in
\* order are the numbers of the run (so each number is whole on one line), and
\* a line after the first begins with a number that, with its separator, did
\* not fit the line before it.
C23_NumericRunPacking ==
    (pc = "packed" /\ \A k \in DOMAIN Printed : Len(Printed[k]) < conv.lineLength) =>
        /\ \A j \in DOMAIN doc : Len(doc[j]) <= conv.lineLength
        /\ TokensOfLines(doc, 1) = Printed
        /\ \A j \in 2..Len(doc) :
              /\ Words(doc[j]) # <<>>
              /\ Len(doc[j - 1]) + 1 + Len(Words(doc[j])[1]) > conv.lineLength

\* a run that took three lines of the 130-character budget, one of them full
C23_Witness ==
    /\ pc = "packed"
    /\ conv.lineLength = 130
    /\ Len(doc) >= 3
    /\ \E j \in DOMAIN doc : Len(doc[j]) = 130

\* the lines of a written file between the format line and the TILT line
KeywordLinesOf(d) ==
    LET tilts == {j \in DOMAIN d : isTiltLine(d[j])}
    IN IF tilts = {} THEN SubSeq(d, 2, Len(d))
       ELSE SubSeq(d, 2, (CHOOSE j \in tilts : \A j2 \in tilts : j <= j2) - 1)

\* the lines of kl that open a keyword: `[KEY] chunk` with KEY other than MORE
FirstLines(kl) ==
    {j \in DOMAIN kl : isKeywordLine(kl[j]) /\ keywordOfLine(kl[j]) # kwMORE}

\* the last line of the keyword opened on line j
BlockEnd(kl, j) ==
    CHOOSE e \in j..Len(kl) :
        /\ \A x \in (j + 1)..e : x \notin FirstLines(kl)
        /\ (e = Len(kl) \/ e + 1 \in FirstLines(kl))

\* the chunk carried by line j
ChunkOf(f, kl, j) ==
    IF j \in FirstLines(kl) THEN SubSeq(kl[j], Len(keywordOfLine(kl[j])) + 4, Len(kl[j]))
    ELSE IF f = IESFormatLM_63_2002 THEN SubSeq(kl[j], 8, Len(kl[j]))
    ELSE SubSeq(kl[j], 2, Len(kl[j]))

\* a text without its blanks and line breaks
Solid(t) == RemoveAll(t, {" ", "\t", NL})

\* every line is `[KEY] chunk`, or a continuation (`[MORE] chunk` under 2002,
\* a leading space before), one opening line per keyword of the model, and the
\* chunks of a keyword in order spell its value
WrappedShape(i, kl) ==
    /\ kl # <<>> => 1 \in FirstLines(kl)
    /\ \A j \in (DOMAIN kl) \ FirstLines(kl) :
          IF i.Format = IESFormatLM_63_2002
          THEN Len(kl[j]) >= 7 /\ SubSeq(kl[j], 1, 7) = <<"[">> \o kwMORE \o <<"]", " ">>
          ELSE Len(kl[j]) >= 1 /\ kl[j][1] = " "
    /\ {keywordOfLine(kl[j]) : j \in FirstLines(kl)} = DOMAIN i.Keywords
    /\ Cardinality(FirstLines(kl)) = Cardinality(DOMAIN i.Keywords)
    /\ \A j \in FirstLines(kl) :
          Solid(Flatten([x \in 1..(BlockEnd(kl, j) - j + 1) |-> ChunkOf(i.Format, kl, j + x - 1)]))
              = Solid(i.Keywords[keywordOfLine(kl[j])])

\* the model holds only keywords its revision accepts, and has been exported
ExportedAccepted ==
    /\ orig # NoModel
    /\ pc = "format"
    /\ \A K \in DOMAIN orig.Keywords : isKeywordAllowed(orig, K)

\* C24: for a model whose keywords the revision accepts, every line Export
\* writes for a keyword has at most maxKeywordLineLength characters (80 up to
\* 1995, 254 for 2002), the first line of a keyword is `[KEY] chunk`, further
\* chunks are `[MORE] chunk` under 2002 and leading-space lines before, and
\* the chunks of a keyword follow the order of its value.
C24_KeywordWrapping ==
    ExportedAccepted =>
        /\ \A j \in DOMAIN KeywordLinesOf(doc) :
              Len(KeywordLinesOf(doc)[j]) <= maxKeywordLineLength(orig)
        /\ WrappedShape(orig, KeywordLinesOf(doc))

\* the line being parsed appends to the last keyword: `[MORE] text`, or a
\* continuation line that begins with a blank
AppendingLine(line) ==
    IF isKeywordLine(line) THEN keywordOfLine(line) = kwMORE ELSE isKeywordExtraLine(line)

IsPrefix(a, b) == Len(a) <= Len(b) /\ SubSeq(b, 1, Len(a)) = a

\* C25: while the keyword section is parsed, a recorded keyword stays
\* recorded, its value changes only on a MORE or continuation line, and then
\* only by growing at its end.
C25_RecordedKeywordKept ==
    [][pc = "keywords" =>
          \A K \in DOMAIN ies.Keywords :
              /\ K \in DOMAIN ies'.Keywords
              /\ ies'.Keywords[K] # ies.Keywords[K] =>
                    /\ AppendingLine(doc[pos])
                    /\ IsPrefix(ies.Keywords[K], ies'.Keywords[K])]_vars

\* ConvertEulumdatToIES has run on a model that passes Eulumdat.Validate, has
\* a symmetry indicator of 0..4 and at least one lamp assembly
ConvertedValid ==
    /\ pc = "converted"
    /\ eorig # NoModel
    /\ EulumdatValidate(eul).ok
    /\ eul.SymmetryIndicator \in 0..4
    /\ eul.NumberStandardSetLamps >= 1

\* C26: the IES model converted from a valid EULUMDAT model passes IES
\* Validate: its horizontal-angle count is the length of HorizontalAngles and
\* the number of candela rows, and every candela row has as many entries as
\* the vertical-angle count.
C26_ConvertedIsExportable ==
    ConvertedValid =>
        /\ conv.err = ""
        /\ Validate(conv.result).ok
        /\ conv.result.NumberHorizontalAngles = Len(conv.result.HorizontalAngles)
        /\ conv.result.NumberHorizontalAngles = Len(conv.result.CandelaValues)
        /\ \A r \in DOMAIN conv.result.CandelaValues :
              Len(conv.result.CandelaValues[r]) = conv.result.NumberVerticalAngles

\* C27: a run never stores more tokens than its size: whatever the lines
\* hold, NewIES ends with a model or with an error of its own, never with a
\* store past the end of the token list.
C27_NoTokenOverrun ==
    Final => err # "panic: index out of range"

\* C28: a document that NewIES, or NewEulumdat, parses with strict = true is
\* parsed with strict = false too, into a model with the same declared
\* fields (the unexported strictParsing of an IES model is the argument
\* itself); and a parse with strict = false never fails on the length of a line.
C28_StrictOnlyRestricts ==
    /\ (pc = "done" /\ strict) =>
          /\ NewIES(doc, FALSE).err = ""
          /\ Declared(NewIES(doc, FALSE).ies) = Declared(ies)
    /\ (pc = "parsed" /\ strict) =>
          /\ NewEulumdat(doc, FALSE).err = ""
          /\ NewEulumdat(doc, FALSE).eul = eul
    /\ (pc = "failed" /\ ~strict) => err # "line exceeds maximum allowed length"

\* a strict parse has accepted an LM-63-1995 document with a line that fills
\* the 130 characters of the line budget
C28_Witness ==
    /\ pc = "done"
    /\ strict
    /\ ies.Format = IESFormatLM_63_1995
    /\ \E j \in DOMAIN doc : Len(doc[j]) = 130

\* C29 as stated: on a model that Upgrade has upgraded, a second Upgrade
\* succeeds and leaves the format and the keyword map as the first call left
\* them.
C29_UpgradeIdempotentAsStated ==
    pc \in {"upgraded twice", "second upgrade failed"} =>
        /\ pc = "upgraded twice" /\ err = ""
        /\ ies.Format = conv.first.Format
        /\ ies.Keywords = conv.first.Keywords

\* every keyword of b that the 2002 revision does not permit has fewer than
\* 18 characters, so its underscore-prefixed key is a keyword
ShortCustomKeys(b) == \A k \in DOMAIN b.Keywords : ~Permitted02(k) => Len(k) < 18

\* C29, amended: a second Upgrade succeeds and leaves the format as it was;
\* it leaves the keyword map as it was exactly when every keyword of the
\* original model that the 2002 revision does not permit has fewer than 18
\* characters.
C29_UpgradeIdempotent ==
    pc \in {"upgraded twice", "second upgrade failed"} =>
        /\ pc = "upgraded twice" /\ err = ""
        /\ ies.Format = conv.first.Format
        /\ ies.Keywords = conv.first.Keywords <=> ShortCustomKeys(orig)

\* a 1995 model with BLOCK has been upgraded twice, and the second call left
\* _BLOCK and the rest of the map alone
C29_Witness ==
    /\ pc = "upgraded twice"
    /\ orig.Format = IESFormatLM_63_1995
    /\ kwBLOCK \in DOMAIN orig.Keywords
    /\ (<<"_">> \o kwBLOCK) \in DOMAIN conv.first.Keywords
    /\ ies.Keywords = conv.first.Keywords

\* C30: ConvertEulumdatToIES on a model that passes Eulumdat.Validate with no
\* lamp assembly (the six assembly arrays empty) returns an IES model or an
\* error, and does not read element 0 of an empty array.
C30_NoLampAssemblies ==
    (/\ pc = "converted"
     /\ eorig # NoModel
     /\ EulumdatValidate(eul).ok
     /\ eul.NumberStandardSetLamps = 0) =>
        /\ conv.err # "panic: index out of range"
        /\ (conv.err = "" => conv.result # NoModel)

====
